---------------------------- MODULE Spec2Model ----------------------------
(***************************************************************************)
(* Event-time normalisation of the calendar application.                   *)
(*                                                                         *)
(* The model covers src/shared/datetime.ts (parseModelDateTimeLocal,       *)
(* parseTransportDateTimeV2, normalizeEventTimesFromText), the             *)
(* createCalendarEvent / updateCalendarEvent branches of the browser-side  *)
(* AiAssistantModal.handleSubmit and of the server-side webhook            *)
(* handleEvent, and App.addEvent / App.updateEvent.                        *)
(*                                                                         *)
(* Time.  An instant is an integer number of minutes since 00:00 UTC of    *)
(* calendar day 0; a calendar date YYYY-MM-DD is the index of its day.     *)
(* A JavaScript Date is a record: a valid Date carries its instant, an     *)
(* Invalid Date (time value NaN) is a distinct value and so is null.       *)
(* A runtime's time zone is a fixed offset from UTC in minutes; the local  *)
(* getters of Date (getFullYear/getMonth/getDate) and the local            *)
(* constructor new Date(y, m, d, ...) use the offset of the runtime that   *)
(* executes them.  Zones have no daylight-saving transitions, and the      *)
(* dates that strings and descriptions name are dates of the calendar.     *)
(***************************************************************************)
EXTENDS Integers, Sequences, FiniteSets, TLC

\* ------------------------------------------------------------------ bounds
\* Calendar dates that inputs may name are 0..MaxDay.
MaxDay == 1
\* The wall clock (new Date()) takes the values NowBase + 0..MaxTick hours.
MaxTick == 1

\* --------------------------------------------------------------- constants
MinutesPerHour == 60
MinutesPerDay == 1440
\* "+08:00", the offset parseModelDateTimeLocal appends (Asia/Taipei).
TaipeiOffset == 480

Days == 0..MaxDay
\* Wall-clock readings HH:mm used by the inputs: 00:30 and 23:30.
Mins == {30, 1410}
\* Time zones a browser runs in: Asia/Taipei, America/New_York (standard time).
ClientZones == {TaipeiOffset, -300}
\* Time zones the cloud function runs in: UTC (the platform default) and
\* Asia/Taipei (TZ set in the deployment).
ServerZones == {0, TaipeiOffset}
\* Instant of the first clock reading: day 1, 02:00 UTC.
NowBase == MinutesPerDay + 2 * MinutesPerHour
Clock == {NowBase + MinutesPerHour * i : i \in 0..MaxTick}

\* ------------------------------------------------------- JavaScript values
Null == [k |-> "null", t |-> 0]
InvalidDate == [k |-> "invalid", t |-> 0]
ValidDate(t) == [k |-> "date", t |-> t]
IsValid(d) == d.k = "date"
\* !d for a value that is a Date or null: only null is falsy; an Invalid
\* Date is an object and therefore truthy.
Falsy(d) == d.k = "null"

\* A value passed as startTime / endTime.  form is one of
\*   "absent"       undefined, null or ""
\*   "offset"       "YYYY-MM-DDTHH:mm:ss+hh:mm" or "...Z"
\*   "offset_bad"   has an offset marker but names no instant ("2025-13-45T10:00Z")
\*   "local_hm"     "YYYY-MM-DD HH:mm" or "YYYY-MM-DDTHH:mm"
\*   "local_hm_bad" same shape, fields out of range ("2025-11-30 25:00")
\*   "local_hms"    "YYYY-MM-DDTHH:mm:ss", no offset
\*   "date"         "YYYY-MM-DD"
\*   "garbage"      a string no parser accepts
\*   "dateobj"      a Date object with instant min (not a string)
\*   "dateobj_bad"  an Invalid Date object
TimeValue(form, day, min, off) == [form |-> form, day |-> day, min |-> min, off |-> off]
AbsentValue == TimeValue("absent", 0, 0, 0)
DateObject(d) == IF IsValid(d) THEN TimeValue("dateobj", 0, d.t, 0)
                 ELSE TimeValue("dateobj_bad", 0, 0, 0)
IsString(v) == v.form \notin {"absent", "dateobj", "dateobj_bad"}
Truthy(v) == v.form # "absent"

\* const x = v; F(x): v is evaluated once and its value is handed to F, as
\* a const or let binding of the source holds one value.
Const(v, F(_)) == CHOOSE r \in {F(x) : x \in {v}} : TRUE

\* new Date(value) in a runtime whose zone offset is tz.
NewDate(v, tz) ==
  CASE v.form = "offset"    -> ValidDate(v.day * MinutesPerDay + v.min - v.off)
    [] v.form = "local_hm"  -> ValidDate(v.day * MinutesPerDay + v.min - tz)
    [] v.form = "local_hms" -> ValidDate(v.day * MinutesPerDay + v.min - tz)
    [] v.form = "date"      -> ValidDate(v.day * MinutesPerDay)
    [] v.form = "dateobj"   -> ValidDate(v.min)
    [] OTHER                -> InvalidDate

\* Local calendar day of instant t in zone tz (getFullYear/getMonth/getDate).
LocalDay(t, tz) == (t + tz) \div MinutesPerDay
\* new Date(y, m, d, 0, 0, 0, 0) in zone tz.
LocalMidnight(day, tz) == day * MinutesPerDay - tz
\* Minute of the day of instant t read in zone tz.
MinuteOfDay(t, tz) == (t + tz) % MinutesPerDay


\* ------------------------------------------------- src/shared/datetime.ts
Thrown == [k |-> "throw", t |-> 0]
IsThrown(d) == d.k = "throw"

parseModelDateTimeLocal_RuntimeZone(value, tz) ==
  IF ~Truthy(value) THEN Null
  ELSE IF ~IsString(value) /\ value.form \notin {"offset", "offset_bad"} THEN Thrown
  ELSE IF IsValid(NewDate(value, tz)) THEN NewDate(value, tz) ELSE Null
\* parseModelDateTimeLocal(value), line by line.  A non-string object passes
\* `!value` and the RegExp test (its string form ends in ")" or is
\* "Invalid Date"), and then has no .match method: TypeError.
parseModelDateTimeLocal(value, tz) ==
  LET nullIfNaN(d) == IF IsValid(d) THEN d ELSE Null
  IN  IF ~Truthy(value) THEN Null
      ELSE IF value.form \in {"offset", "offset_bad"}
        THEN nullIfNaN(NewDate(value, tz))
      ELSE IF ~IsString(value) THEN Thrown
      ELSE IF value.form = "local_hm"
        THEN nullIfNaN(NewDate(TimeValue("offset", value.day, value.min, TaipeiOffset), tz))
      ELSE IF value.form = "local_hm_bad"
        THEN nullIfNaN(NewDate(TimeValue("offset_bad", 0, 0, 0), tz))
      ELSE IF value.form = "date"
        THEN nullIfNaN(NewDate(TimeValue("offset", value.day, 0, TaipeiOffset), tz))
      ELSE nullIfNaN(NewDate(value, tz))

\* The value of an allDay argument: "true", "false" or "undefined".
ToBool(allDay) == allDay = "true"

\* What a call of normalizeEventTimesFromText produces: a thrown error or
\* the triple { start, end, allDay }.
NormThrown == [err |-> TRUE, start |-> Null, end |-> Null, allDay |-> FALSE]
Triple(start, end, allDay) == [err |-> FALSE, start |-> start, end |-> end, allDay |-> allDay]

\* Lines 113-120 (and handleEvent 466-474, 506-514): snap to the midnight of
\* the start's calendar date as the runtime sees it.  The getters of an
\* Invalid Date give NaN, and so does every Date built from them.
SnapStart(start, tz) ==
  IF IsValid(start) THEN ValidDate(LocalMidnight(LocalDay(start.t, tz), tz))
  ELSE InvalidDate
\* new Date(d.getTime() + minutes)
PlusMinutes(d, minutes) == IF IsValid(d) THEN ValidDate(d.t + minutes) ELSE InvalidDate
\* end <= start on two Dates: false as soon as one of them is NaN.
DateLeq(a, b) == IsValid(a) /\ IsValid(b) /\ a.t <= b.t

normalizeEventTimesFromText(startTime, endTime, allDayArg, tz, now) ==
  LET allDay == ToBool(allDayArg)
      \* lines 96-97
      Fallback(d, arg) == IF Falsy(d) /\ Truthy(arg) THEN NewDate(arg, tz) ELSE d
      \* lines 100-103
      DateOnly(start) ==
        IF Falsy(start) /\ IsString(startTime) /\ startTime.form = "date"
             /\ ~Falsy(parseModelDateTimeLocal(startTime, tz))
        THEN parseModelDateTimeLocal(startTime, tz) ELSE start
      \* lines 105-108
      OrNow(start) == IF Falsy(start) THEN ValidDate(now) ELSE start
      \* lines 109-111
      OrHourLater(end, start) == IF Falsy(end) THEN PlusMinutes(start, MinutesPerHour) ELSE end
      \* lines 113-124
      Settle(start, end) ==
        LET AllDay(s) == Triple(s, PlusMinutes(s, MinutesPerDay), allDay)
            Ordered(t) == IF DateLeq(t.end, t.start)
                          THEN Triple(t.start, PlusMinutes(t.start, MinutesPerHour), allDay)
                          ELSE t
        IN  Const(IF allDay THEN Const(SnapStart(start, tz), AllDay)
                  ELSE Triple(start, end, allDay),
                  Ordered)
      Body(p) ==
        IF IsThrown(p.start) \/ IsThrown(p.end) THEN NormThrown
        ELSE LET WithStart(start) ==
                   LET WithEnd(end) == Settle(start, end)
                   IN  Const(OrHourLater(Fallback(p.end, endTime), start), WithEnd)
             IN  Const(OrNow(DateOnly(Fallback(p.start, startTime))), WithStart)
  IN  Const([start |-> parseModelDateTimeLocal(startTime, tz),
             end   |-> parseModelDateTimeLocal(endTime, tz)], Body)

\* A description, as far as the date/time extractors see it:
\*   dlabel  how its YYYY年M月D日 text is introduced: "full" (行程日期：),
\*           "short" (日期, colon optional), "bare" (no label), "none" (the
\*           description has no such text); dday is the date it names
\*   tlabel  the same for its H:MM text (行程時間： / 時間 / no label / none);
\*           tmin = 60 * H + MM, where H ranges over what [0-2]?\d matches
\*   present whether the argument was supplied at all
Description(present, dlabel, dday, tlabel, tmin) ==
  [present |-> present, dlabel |-> dlabel, dday |-> dday, tlabel |-> tlabel, tmin |-> tmin]
NoDescription == Description(FALSE, "none", 0, "none", 0)

parseTransportDateTimeV2_DateAlone(desc) ==
  IF ~desc.present THEN Null
  ELSE IF desc.dlabel = "none" THEN Null
  ELSE IF desc.tlabel = "none" THEN ValidDate(desc.dday * MinutesPerDay - TaipeiOffset)
  ELSE IF desc.tmin > MinutesPerDay THEN Null
  ELSE ValidDate(desc.dday * MinutesPerDay + desc.tmin - TaipeiOffset)
\* parseTransportDateTimeV2(text): the first date regex needs a label, the
\* second none, so any YYYY年M月D日 is found; likewise any H:MM.  The pieces
\* are printed as an ISO string with "+08:00", which names no instant when
\* the hour is out of range (24:00 itself is accepted).
parseTransportDateTimeV2(desc) ==
  IF ~desc.present THEN Null
  ELSE IF desc.dlabel = "none" \/ desc.tlabel = "none" THEN Null
  ELSE IF desc.tmin > MinutesPerDay THEN Null
  ELSE ValidDate(desc.dday * MinutesPerDay + desc.tmin - TaipeiOffset)

\* parseTransportDateTime(text) of the webhook: both labels in full, each
\* followed by a colon; Date.UTC(y, m, d, hh - 8, mm, 0) carries any
\* out-of-range hour over into the neighbouring day.
parseTransportDateTime(desc) ==
  IF ~desc.present THEN Null
  ELSE IF desc.dlabel # "full" \/ desc.tlabel # "full" THEN Null
  ELSE ValidDate(desc.dday * MinutesPerDay + (desc.tmin - 8 * MinutesPerHour))

\* ------------------------------------------------------------------ state
VARIABLES
  now,          \* the wall clock, what new Date() returns
  clientZone,   \* time zone of the browser
  serverZone,   \* time zone of the cloud function
  call,         \* the tool call (name and arguments) being processed
  parsed,       \* result of parseModelDateTimeLocal(startTime) in the browser
  clientNorm,   \* result of normalizeEventTimesFromText in the browser
  serverNorm,   \* result of normalizeEventTimesFromText in the cloud function
  reNorm,       \* result of normalizing clientNorm once more in the browser
  clientWrite,  \* what the browser path handed to Firestore for this call
  serverWrite,  \* what the webhook path handed to Firestore for this call
  eventText,    \* event.description of the event shown in EventDetailModal
  stops,        \* pickupAddresses / dropoffAddresses / midStops of that event
  rendered,     \* descriptionWithMidStops, the text of the description field
  hasKey,       \* whether FLIGHTAWARE_API_KEY is set (flightawareClient exists)
  request,      \* the request the flightAwareStatus endpoint received
  provider,     \* what flightawareClient.flights.retrieve did
  lookup,       \* result of queryFlightAwareStatus
  response,     \* the response of the endpoint
  fetched,      \* what the promise of fetchFlightAwareStatus settled to
  shown,        \* what EventDetailModal shows for the flight
  phoneBody,    \* a phone number as written in a description
  phoneNorm,    \* result of normalizePhoneNumber(phoneBody)
  phoneLine,    \* what renderPhoneLine renders for phoneBody
  phoneInline,  \* what the inline branch renders for phoneBody
  deps,                 \* the dependencies of the flight status effect now
  effectRuns,           \* the runs of that effect, each with its cancelled flag
  flightStatus,         \* state of EventDetailModal
  flightStatusError,    \* state of EventDetailModal
  flightStatusLoading,  \* state of EventDetailModal
  genModel,     \* generateWithFallback: index of the model of the outer loop
  genAttempt,   \* generateWithFallback: i of the inner loop
  genLog,       \* the provider calls made so far, with what each ended in
  genOutcome,   \* whether generateWithFallback runs, returned or threw
  wallClock,       \* the time of day of the reminder check, in minutes
  firestore,       \* the documents of the events collection
  events,          \* the events state of App, as of the last snapshot
  notifiedEvents,  \* notifiedEventsRef.current
  awaiting,        \* calls of updateEvent / deleteEvent waiting on their write
  notices,         \* notifications shown per id since its start time last changed
  permission,      \* Notification.permission === 'granted'
  prompt,     \* state of AiAssistantModal: the text of the input
  images,     \* state of AiAssistantModal: how many images are attached
  isLoading,  \* state of AiAssistantModal
  messages,   \* state of AiAssistantModal: the roles of the messages
  inFlight,   \* calls of createEventViaAi not settled yet
  submits     \* what each call of handleSubmit found

\* The variables of the date and time paths.
timeVars == <<now, clientZone, serverZone, call, parsed, clientNorm, serverNorm, reNorm,
              clientWrite, serverWrite>>
\* The variables of the stop lists of EventDetailModal.
detailVars == <<eventText, stops, rendered>>
\* The variables of the flight status path.
flightVars == <<hasKey, request, provider, lookup, response, fetched, shown>>
\* The variables of the phone links of TextWithSmartLinks.
phoneVars == <<phoneBody, phoneNorm, phoneLine, phoneInline>>
\* The variables of the flight status effect of EventDetailModal.
staleVars == <<deps, effectRuns, flightStatus, flightStatusError, flightStatusLoading>>
\* The variables of generateWithFallback.
genVars == <<genModel, genAttempt, genLog, genOutcome>>
\* The variables of the reminder check of App.
remindVars == <<wallClock, firestore, events, notifiedEvents, awaiting, notices, permission>>
\* The variables of AiAssistantModal.
aiVars == <<prompt, images, isLoading, messages, inFlight, submits>>
\* The variables of the four parts above.
restVars == <<staleVars, genVars, remindVars, aiVars>>
\* The variables the date and time paths leave alone.
otherVars == <<detailVars, flightVars, phoneVars, restVars>>
vars == <<now, clientZone, serverZone, call, parsed, clientNorm, serverNorm, reNorm,
          clientWrite, serverWrite, otherVars>>

ToolCall(name, id, startTime, endTime, allDay, description) ==
  [name |-> name, id |-> id, startTime |-> startTime, endTime |-> endTime,
   allDay |-> allDay, description |-> description]
NoCall == ToolCall("none", "", AbsentValue, AbsentValue, "undefined", NoDescription)

\* Not yet computed.
NotParsed == [k |-> "pending", t |-> 0]
NotRun == [err |-> FALSE, start |-> Thrown, end |-> Thrown, allDay |-> FALSE]
HasRun(n) == n # NotRun

\* A Firestore write: op is "pending" (call not handled yet), "none" (handled,
\* nothing written), "add" or "update".  A field that is not part of the
\* written document or update map is AbsentField / "undefined".
AbsentField == [k |-> "absent", t |-> 0]
Write(op, id, startTime, endTime, allDay, hasDescription) ==
  [op |-> op, id |-> id, startTime |-> startTime, endTime |-> endTime,
   allDay |-> allDay, hasDescription |-> hasDescription]
Pending == Write("pending", "", AbsentField, AbsentField, "undefined", FALSE)
NothingWritten == Write("none", "", AbsentField, AbsentField, "undefined", FALSE)

\* ------------------------------------ src/unnamed/part_000, EventDetailModal
\* A description is the sequence of its non-empty lines, as split(/\n+/)
\* yields them.  A line has a kind, the pattern of the source it matches,
\*   "pickup"   begins with 上車地址：     "dropoff"  begins with 下車地址：
\*   "arrow"    begins with → or ->        "keyword"  begins with 途經
\*   "remark"   begins with 備註：         "mid"      begins with 中途停靠：
\*   "other"    none of these
\* and a body, the items its delimiters (、，,；;) separate.  An item is a
\* text that holds no delimiter, written plainly or as the label of a
\* Markdown link [text](https://www.google.com/maps/search/?api=1&query=...).
\* An arrow line has one item: the source takes all that follows the arrow
\* as one value.
Item(text, link) == [text |-> text, link |-> link]
Plain(text) == Item(text, FALSE)
Linked(text) == Item(text, TRUE)
Line(kind, items) == [kind |-> kind, items |-> items]

\* Texts that looksLikeAddress accepts, a text it rejects, and a bare URL.
Addresses == {"addr1", "addr2", "addr3", "addr4"}
NoteText == "note"
UrlText == "url"
looksLikeAddress(s) == s \in Addresses
\* The filter of pickupAddresses / dropoffAddresses: ^https?:, ^www.,
\* 'search', api=1&query=.
IsNoise(s) == s = UrlText

\* .slice(0, 3) of the three lists.
MaxShown == 3

\* The entries of items at the indices in keep, in order.
AtIndices(items, keep) ==
  [k \in 1..Cardinality(keep) |->
      items[CHOOSE i \in keep : Cardinality({j \in keep : j <= i}) = k]]
\* [...new Set(items)]: the first occurrence of every value, in order.
Dedupe_KeepRepeats(items) == items
Dedupe(items) ==
  AtIndices(items, {i \in 1..Len(items) : \A j \in 1..(i - 1) : items[j] # items[i]})
\* items.slice(0, n)
Slice(items, n) == SubSeq(items, 1, IF Len(items) < n THEN Len(items) ELSE n)
\* Whether value s is an entry of list.
Has(list, s) == \E i \in 1..Len(list) : list[i] = s
\* items.push(...) over a sequence of sequences.
RECURSIVE Flatten(_)
Flatten(ss) == IF ss = <<>> THEN <<>> ELSE Head(ss) \o Flatten(Tail(ss))
Texts(items) == [i \in 1..Len(items) |-> items[i].text]
LinkedItems(items) == LET IsLink(it) == it.link IN SelectSeq(items, IsLink)
PlainItems(items) == LET IsPlain(it) == ~it.link IN SelectSeq(items, IsPlain)

\* What one 上車地址 / 下車地址 line pushes: the labels of its Markdown links
\* when it has any, else the parts between the delimiters.
LineAddresses(line) ==
  IF LinkedItems(line.items) # <<>> THEN Texts(LinkedItems(line.items))
  ELSE Texts(line.items)
\* All that the lines of one label push, noise filtered out.
Pushed(desc, kind) ==
  LET OfKind(l) == l.kind = kind
      NotNoise(s) == ~IsNoise(s)
      Of(lines) == Flatten([i \in 1..Len(lines) |-> LineAddresses(lines[i])])
  IN  SelectSeq(Of(SelectSeq(desc, OfKind)), NotNoise)
\* pickupAddresses and dropoffAddresses: the same code for the two labels.
LabelledAddresses(desc, kind) == Slice(Dedupe(Pushed(desc, kind)), MaxShown)
pickupAddresses(desc) == LabelledAddresses(desc, "pickup")
dropoffAddresses(desc) == LabelledAddresses(desc, "dropoff")

MidCandidates_NoBlockList(desc, pickup, dropoff) ==
  LET Accepted(s) == looksLikeAddress(s)
      OfLine(line) ==
        CASE line.kind = "arrow" ->
               IF Len(line.items) = 1 THEN SelectSeq(Texts(line.items), Accepted) ELSE <<>>
          [] line.kind = "keyword" ->
               SelectSeq(Texts(PlainItems(line.items)), Accepted)
          [] line.kind = "remark" ->
               SelectSeq(Texts(LinkedItems(line.items)), Accepted)
                 \o SelectSeq(Texts(PlainItems(line.items)), Accepted)
          [] OTHER -> <<>>
  IN  Flatten([i \in 1..Len(desc) |-> OfLine(desc[i])])
\* The candidates of midStops before deduplication.  On a keyword line the
\* split on [，,、/;] cuts a Markdown link at the slashes of its URL and the
\* pieces fail looksLikeAddress (they hold "https:" or "api=1&query=" or no
\* address suffix); on a remark line the labels are taken first and the
\* pieces of the links are rejected in the same way.
MidCandidates(desc, pickup, dropoff) ==
  LET Accepted(s) == looksLikeAddress(s) /\ ~Has(pickup, s) /\ ~Has(dropoff, s)
      OfLine(line) ==
        CASE line.kind = "arrow" ->
               IF Len(line.items) = 1 THEN SelectSeq(Texts(line.items), Accepted) ELSE <<>>
          [] line.kind = "keyword" ->
               SelectSeq(Texts(PlainItems(line.items)), Accepted)
          [] line.kind = "remark" ->
               SelectSeq(Texts(LinkedItems(line.items)), Accepted)
                 \o SelectSeq(Texts(PlainItems(line.items)), Accepted)
          [] OTHER -> <<>>
  IN  Flatten([i \in 1..Len(desc) |-> OfLine(desc[i])])
midStops(desc, pickup, dropoff) ==
  Slice(Dedupe(MidCandidates(desc, pickup, dropoff)), MaxShown)

\* The line `中途停靠：${midStops.join('、')}`, or 中途停靠： for no stop.
MidLine(mid) == Line("mid", [i \in 1..Len(mid) |-> Plain(mid[i])])
\* lines.findIndex(l => pattern.test(l)), 0 standing for -1.
FindIndex(lines, kind) ==
  IF \E i \in 1..Len(lines) : lines[i].kind = kind
  THEN CHOOSE i \in 1..Len(lines) :
         /\ lines[i].kind = kind
         /\ \A j \in 1..(i - 1) : lines[j].kind # kind
  ELSE 0
InsertAfter_AtEnd(lines, idx, line) == Append(lines, line)
\* lines.splice(idx + 1, 0, line) for the idx-th line, counted from 1.
InsertAfter(lines, idx, line) ==
  SubSeq(lines, 1, idx) \o <<line>> \o SubSeq(lines, idx + 1, Len(lines))
\* ensureAfter(idx) followed by lines[idx + 1] = midText; no line of the text
\* begins with 中途停靠： here, so that ensureAfter always splices.
EnsureAfter(lines, kind, mid) ==
  IF FindIndex(lines, kind) = 0 THEN lines
  ELSE InsertAfter(lines, FindIndex(lines, kind), MidLine(mid))

\* descriptionWithMidStops: the text is returned as it is when it has a
\* 中途停靠 line; else a 中途停靠 line is put after the first 上車地址 line and
\* another after the first 下車地址 line, or one at the end when the text has
\* neither, and each is set to midText.
descriptionWithMidStops_NoManualCheck(desc, mid) ==
  IF FindIndex(desc, "pickup") = 0 /\ FindIndex(desc, "dropoff") = 0
    THEN Append(desc, MidLine(mid))
  ELSE EnsureAfter(EnsureAfter(desc, "pickup", mid), "dropoff", mid)
descriptionWithMidStops_Overwrite(desc, mid) ==
  IF \E i \in 1..Len(desc) : desc[i].kind = "mid" THEN desc
  ELSE IF FindIndex(desc, "pickup") = 0 THEN Append(desc, MidLine(mid))
  ELSE IF FindIndex(desc, "pickup") = Len(desc) THEN Append(desc, MidLine(mid))
  ELSE [desc EXCEPT ![FindIndex(desc, "pickup") + 1] = MidLine(mid)]
descriptionWithMidStops(desc, mid) ==
  IF \E i \in 1..Len(desc) : desc[i].kind = "mid" THEN desc
  ELSE IF FindIndex(desc, "pickup") = 0 /\ FindIndex(desc, "dropoff") = 0
    THEN Append(desc, MidLine(mid))
  ELSE EnsureAfter(EnsureAfter(desc, "pickup", mid), "dropoff", mid)

\* The three lists, once computed.
Stops(pickup, dropoff, mid) ==
  [k |-> "done", pickup |-> pickup, dropoff |-> dropoff, mid |-> mid]
NoStops == [k |-> "none", pickup |-> <<>>, dropoff |-> <<>>, mid |-> <<>>]
reconcile(desc) ==
  LET WithLists(p, d) == Stops(p, d, midStops(desc, p, d))
      WithPickup(p) == LET With(d) == WithLists(p, d)
                       IN Const(dropoffAddresses(desc), With)
  IN  Const(pickupAddresses(desc), WithPickup)


\* -------------------------- src/unnamed/part_004, the flight status lookup
\* A timestamp field of a provider record: an ISO string naming instant t,
\* a non-empty string no parser accepts, or null / undefined / ''.
Iso(t) == [k |-> "iso", t |-> t]
BadIso == [k |-> "bad", t |-> 0]
NoIso == [k |-> "none", t |-> 0]
\* parseDate(iso)
parseDate(iso) == IF iso.k = "iso" THEN ValidDate(iso.t) ELSE Null
\* pickFirstNonNull(...values): the first value that is not undefined, null
\* or ''.
pickFirstNonNull(values) ==
  IF \E i \in 1..Len(values) : values[i] # NoIso
  THEN values[CHOOSE i \in 1..Len(values) :
                 values[i] # NoIso /\ \A j \in 1..(i - 1) : values[j] = NoIso]
  ELSE NoIso
\* isoStringToDateKey(iso, 'Asia/Taipei'): the Taiwan calendar date, or null.
DateKey(day) == [k |-> "key", day |-> day]
NoDateKey == [k |-> "null", day |-> 0]
formatDateKey(t) == DateKey(LocalDay(t, TaipeiOffset))
isoStringToDateKey(iso) ==
  IF IsValid(parseDate(iso)) THEN formatDateKey(parseDate(iso).t) ELSE NoDateKey

\* An airport of a record, with its four code fields ("" for a missing one),
\* and a missing destination.
Airport(code, code_iata, code_icao, code_lid) ==
  [k |-> "airport", code |-> code, code_iata |-> code_iata, code_icao |-> code_icao,
   code_lid |-> code_lid]
NoAirport == [k |-> "none", code |-> "", code_iata |-> "", code_icao |-> "", code_lid |-> ""]
TAIWAN_AIRPORT_CODES ==
  {"TPE", "TSA", "KHH", "RMQ", "TTT", "HUN", "KNH", "MZG", "LZN", "GNI", "MFK", "KYD",
   "CYI", "TNN", "PIF", "RCTP", "RCSS", "RCKH", "RCMQ", "RCNN", "RCYU", "RCFN", "RCQC",
   "RCBS", "RCMT", "RCFG", "RCGI", "RCLY"}
\* code.toUpperCase(), on the codes of the model.
ToUpperCase(code) == IF code = "tsa" THEN "TSA" ELSE code
isTaiwanAirport(code) == code # "" /\ ToUpperCase(code) \in TAIWAN_AIRPORT_CODES
isTaiwanArrival_AnyDestination(flight) == TRUE
isTaiwanArrival(flight) ==
  /\ flight.destination.k = "airport"
  /\ \/ isTaiwanAirport(flight.destination.code)
     \/ isTaiwanAirport(flight.destination.code_iata)
     \/ isTaiwanAirport(flight.destination.code_icao)
     \/ isTaiwanAirport(flight.destination.code_lid)

\* A duration in minutes, or null.
Minutes(n) == [k |-> "minutes", n |-> n]
NoMinutes == [k |-> "null", n |-> 0]
\* A provider record: its destination, its six arrival fields in the order
\* pickFirstNonNull is given them (actual_in, estimated_in, actual_on,
\* estimated_on, scheduled_in, scheduled_on), its six departure fields in
\* that order too (actual_out, estimated_out, actual_off, estimated_off,
\* scheduled_out, scheduled_off) and filed_ete, the duration the provider
\* itself gives for the flight, a field no line of the source reads.
FlightRecord(destination, arrival, departure, filed_ete) ==
  [destination |-> destination, arrival |-> arrival, departure |-> departure,
   filed_ete |-> filed_ete]
ArrivalFields(actual_in, estimated_in, actual_on, estimated_on, scheduled_in, scheduled_on) ==
  <<actual_in, estimated_in, actual_on, estimated_on, scheduled_in, scheduled_on>>
Arrival(actual_in, estimated_in, scheduled_in) ==
  ArrivalFields(actual_in, estimated_in, NoIso, NoIso, scheduled_in, NoIso)
Departure(actual_out, estimated_out, scheduled_out) ==
  <<actual_out, estimated_out, NoIso, NoIso, scheduled_out, NoIso>>
arrivalIso(flight) == pickFirstNonNull(flight.arrival)
\* estDep of mapFlightToStatus.
departureIso(flight) == pickFirstNonNull(flight.departure)
\* computeDurationMinutes(depIso, arrIso); the instants of the model are
\* whole minutes, so that Math.round changes nothing.
computeDurationMinutes(depIso, arrIso) ==
  IF ~IsValid(parseDate(depIso)) \/ ~IsValid(parseDate(arrIso)) THEN NoMinutes
  ELSE IF parseDate(arrIso).t - parseDate(depIso).t > 0
    THEN Minutes(parseDate(arrIso).t - parseDate(depIso).t)
  ELSE NoMinutes

\* What a lookup yields: null, a thrown error, or the payload of
\* mapFlightToStatus for the index-th record of the provider's list.
NoLookup ==
  [k |-> "pending", index |-> 0, estimatedArrival |-> NoIso, durationMinutes |-> NoMinutes]
LookupNull ==
  [k |-> "null", index |-> 0, estimatedArrival |-> NoIso, durationMinutes |-> NoMinutes]
LookupThrown ==
  [k |-> "throw", index |-> 0, estimatedArrival |-> NoIso, durationMinutes |-> NoMinutes]
mapFlightToStatus(flights, index) ==
  [k |-> "payload", index |-> index, estimatedArrival |-> arrivalIso(flights[index]),
   durationMinutes |->
     computeDurationMinutes(departureIso(flights[index]), arrivalIso(flights[index]))]

\* { flight, key, ts } of the map step.
Match(flights, i) ==
  [index |-> i, key |-> isoStringToDateKey(arrivalIso(flights[i])),
   ts |-> parseDate(arrivalIso(flights[i]))]
\* |ts - eventDate|
Distance(t, eventDate) == IF t >= eventDate THEN t - eventDate ELSE eventDate - t
\* aDiff - bDiff <= 0 of the comparator, a missing ts counting as
\* Number.MAX_SAFE_INTEGER.
DiffLeq(a, b, eventDate) ==
  \/ ~IsValid(b.ts)
  \/ IsValid(a.ts) /\ Distance(a.ts.t, eventDate) <= Distance(b.ts.t, eventDate)
\* matches.sort(comparator): Array.prototype.sort is stable, so that records
\* of equal distance keep the order of the list.
RECURSIVE SortByDistance(_, _)
SortByDistance_Unsorted(matches, eventDate) == matches
SortByDistance(matches, eventDate) ==
  IF matches = <<>> THEN <<>>
  ELSE LET last == matches[Len(matches)]
           Put(sorted) ==
             LET n == Cardinality({i \in 1..Len(sorted) : DiffLeq(sorted[i], last, eventDate)})
             IN  SubSeq(sorted, 1, n) \o <<last>> \o SubSeq(sorted, n + 1, Len(sorted))
       IN  Const(SortByDistance(SubSeq(matches, 1, Len(matches) - 1), eventDate), Put)

\* queryFlightAwareStatus(ident, eventDate) on the list the provider
\* returned.
queryFlightAwareStatus(flights, eventDate) ==
  LET OnTaiwanDate(m) ==
        isTaiwanArrival(flights[m.index]) /\ m.key = formatDateKey(eventDate)
      Pick(matches) ==
        IF matches = <<>> THEN LookupNull
        ELSE mapFlightToStatus(flights, Head(SortByDistance(matches, eventDate)).index)
  IN  IF flights = <<>> THEN LookupNull
      ELSE Const(SelectSeq([i \in 1..Len(flights) |-> Match(flights, i)], OnTaiwanDate), Pick)

\* A request to the flightAwareStatus endpoint and the reply of the provider.
Request(method, flight, dateOk, eventDate) ==
  [method |-> method, flight |-> flight, dateOk |-> dateOk, eventDate |-> eventDate]
NoRequest == Request("none", "", FALSE, 0)
ProviderOk(flights) == [k |-> "ok", flights |-> flights]
ProviderFailed == [k |-> "failed", flights |-> <<>>]
NotQueried == [k |-> "none", flights |-> <<>>]
\* response.status(code).json(body); status 0: nothing sent.
Response(status, flight) == [status |-> status, flight |-> flight]
NoResponse == Response(0, NoLookup)

\* The lookup the handler makes: the provider throws or returns a list.
LookupOf(req, reply) ==
  IF reply.k = "failed" THEN LookupThrown
  ELSE queryFlightAwareStatus(reply.flights, req.eventDate)
\* The flightAwareStatus handler.  configured: FLIGHTAWARE_API_KEY is set.
NeedsLookup(req, configured) ==
  req.method = "GET" /\ req.flight # "" /\ req.dateOk /\ configured
flightAwareStatus_KeyFirst(req, configured, reply) ==
  IF req.method = "OPTIONS" THEN Response(204, NoLookup)
  ELSE IF ~configured THEN Response(503, NoLookup)
  ELSE IF req.method # "GET" THEN Response(405, NoLookup)
  ELSE IF req.flight = "" THEN Response(400, NoLookup)
  ELSE IF ~req.dateOk THEN Response(400, NoLookup)
  ELSE LET Answer(status) ==
             IF status.k = "throw" THEN Response(502, NoLookup)
             ELSE IF status.k = "null" THEN Response(404, NoLookup)
             ELSE Response(200, status)
       IN  Const(LookupOf(req, reply), Answer)
flightAwareStatus(req, configured, reply) ==
  IF req.method = "OPTIONS" THEN Response(204, NoLookup)
  ELSE IF req.method # "GET" THEN Response(405, NoLookup)
  ELSE IF req.flight = "" THEN Response(400, NoLookup)
  ELSE IF ~req.dateOk THEN Response(400, NoLookup)
  ELSE IF ~configured THEN Response(503, NoLookup)
  ELSE LET Answer(status) ==
             IF status.k = "throw" THEN Response(502, NoLookup)
             ELSE IF status.k = "null" THEN Response(404, NoLookup)
             ELSE Response(200, status)
       IN  Const(LookupOf(req, reply), Answer)

\* ------------------------ src/unnamed/part_002, fetchFlightAwareStatus
\* What the promise of fetchFlightAwareStatus settles to for a response:
\* null for 404, an error for any other status outside 200..299, else
\* json.flight || null.
Fetched(k, flight) == [k |-> k, flight |-> flight]
NotFetched == Fetched("pending", NoLookup)
fetchFlightAwareStatus_NullOnError(resp) ==
  IF resp.status = 404 THEN Fetched("null", NoLookup)
  ELSE IF ~(resp.status >= 200 /\ resp.status <= 299) THEN Fetched("null", NoLookup)
  ELSE IF resp.flight.k = "payload" THEN Fetched("data", resp.flight)
  ELSE Fetched("null", NoLookup)
fetchFlightAwareStatus(resp) ==
  IF resp.status = 404 THEN Fetched("null", NoLookup)
  ELSE IF ~(resp.status >= 200 /\ resp.status <= 299) THEN Fetched("throw", NoLookup)
  ELSE IF resp.flight.k = "payload" THEN Fetched("data", resp.flight)
  ELSE Fetched("null", NoLookup)
\* The then / catch of the effect of EventDetailModal: what the modal shows.
\*   "status"    the flight status        "notfound"  找不到 FlightAware 航班資料
\*   "error"     the message of the error
Shown(result) ==
  CASE result.k = "data" -> "status"
    [] result.k = "null" -> "notfound"
    [] OTHER -> "error"

\* ------------------- src/unnamed/part_000, TextWithSmartLinks: phone numbers
\* A phone body is a string, here a sequence of characters '+', '-', ' ' and
\* digits.  The bodies of the model are built of the tokens "+", "-", " ",
\* "0", "8", "6" and "1234" (a run of four digits).
IsDigit(ch) == ch \in {"0", "1", "2", "3", "4", "6", "8"}
TokenChars(token) == IF token = "1234" THEN <<"1", "2", "3", "4">> ELSE <<token>>
Chars(tokens) == Flatten([i \in 1..Len(tokens) |-> TokenChars(tokens[i])])
\* value.trim()
Trim(s) ==
  IF \A i \in 1..Len(s) : s[i] = " " THEN <<>>
  ELSE SubSeq(s, CHOOSE i \in 1..Len(s) : s[i] # " " /\ \A j \in 1..(i - 1) : s[j] = " ",
                 CHOOSE i \in 1..Len(s) : s[i] # " " /\ \A j \in (i + 1)..Len(s) : s[j] = " ")
\* value.replace(/[^\d]/g, '')
DigitsOnly(s) == SelectSeq(s, IsDigit)
\* s.startsWith(prefix)
StartsWith(s, prefix) == Len(s) >= Len(prefix) /\ SubSeq(s, 1, Len(prefix)) = prefix
\* A normalized number, or null.
Number(s) == [k |-> "number", s |-> s]
NoNumber == [k |-> "null", s |-> <<>>]
NotNormalized == [k |-> "pending", s |-> <<>>]

normalizePhoneNumber_Keep00(value) ==
  LET Of(digitsOnly) ==
        IF digitsOnly = <<>> THEN NoNumber
        ELSE IF StartsWith(Trim(value), <<"+">>) THEN Number(<<"+">> \o digitsOnly)
        ELSE IF StartsWith(digitsOnly, <<"8", "8", "6">>) THEN Number(<<"+">> \o digitsOnly)
        ELSE Number(digitsOnly)
  IN  IF Trim(value) = <<>> THEN NoNumber ELSE Const(DigitsOnly(Trim(value)), Of)
normalizePhoneNumber(value) ==
  LET Of(digitsOnly) ==
        IF digitsOnly = <<>> THEN NoNumber
        ELSE IF StartsWith(Trim(value), <<"+">>) THEN Number(<<"+">> \o digitsOnly)
        ELSE IF StartsWith(digitsOnly, <<"0", "0">>) /\ Len(digitsOnly) > 2
          THEN Number(<<"+">> \o SubSeq(digitsOnly, 3, Len(digitsOnly)))
        ELSE IF StartsWith(digitsOnly, <<"8", "8", "6">>) THEN Number(<<"+">> \o digitsOnly)
        ELSE Number(digitsOnly)
  IN  IF Trim(value) = <<>> THEN NoNumber ELSE Const(DigitsOnly(Trim(value)), Of)

\* normalized.replace(/[^\d]/g, '').length >= 6 of the inline branch.
MinTelDigits == 6
\* What is rendered for a number: a tel: link or the plain text.
\* renderPhoneLine, for one part num of the body of a labelled phone line.
renderPhoneLine(num) ==
  IF normalizePhoneNumber(num).k = "number" THEN "link" ELSE "text"
\* The inline branch, for a part phonePart that phoneRegex matched.
renderInlinePhone(phonePart) ==
  LET Of(normalized) ==
        IF normalized.k = "number" /\ Len(DigitsOnly(normalized.s)) >= MinTelDigits
        THEN "link" ELSE "text"
  IN  Const(normalizePhoneNumber(phonePart), Of)

\* ------------- src/unnamed/part_000, EventDetailModal: the flight status effect
\* The dependencies of the effect: event.id, event.startTime.getTime(),
\* flightInfo.flightNo ("" for null) and flightInfo.kind; NoDeps: no modal is
\* mounted.
Deps(id, startTime, flightNo, kind) ==
  [id |-> id, startTime |-> startTime, flightNo |-> flightNo, kind |-> kind]
NoDeps == Deps("", 0, "", "")
\* One run of the effect: the dependencies it ran for, whether it called
\* fetchFlightAwareStatus, its variable cancelled, and whether the promise of
\* that call has settled.
Run(of, requested) ==
  [deps |-> of, requested |-> requested, cancelled |-> FALSE, settled |-> FALSE]
\* flightStatus: null, or the data fetched for the dependencies named.
NoStatus == [k |-> "null", of |-> NoDeps]
StatusOf(of) == [k |-> "data", of |-> of]
\* flightStatusError: null, 找不到 FlightAware 航班資料 ("notfound") or the
\* message of an error ("failed").
NoError == "none"
\* !flightInfo.flightNo || flightInfo.kind !== 'arr' is false.
NeedsStatus(d) == d.flightNo # "" /\ d.kind = "arr"
\* The cleanup of the latest run: cancelled = true.
Cleanup_Nothing(runs) == runs
Cleanup(runs) ==
  IF runs = <<>> THEN runs ELSE [runs EXCEPT ![Len(runs)].cancelled = TRUE]
\* What then / catch set for the outcome of the promise: the data, null (no
\* flight found) or a rejection.
StatusAfter(run, outcome) == IF outcome = "data" THEN StatusOf(run.deps) ELSE NoStatus
ErrorAfter(outcome) ==
  CASE outcome = "data" -> NoError
    [] outcome = "null" -> "notfound"
    [] OTHER -> "failed"

\* ------------------------ src/unnamed/part_004, generateWithFallback
\* The models of the outer loop, in their order, and the bound of the inner
\* loop (for (let i = 0; i < 2; i++)).
models == <<"gemini-1.5-flash", "gemini-2.0-flash", "gemini-2.5-flash", "gemini-3-pro-preview">>
MaxAttempts == 2
\* What a call of genAI.models.generateContent ends in: a response, or an
\* error e with e.error.status and e.response.status ("" for a missing one;
\* "503" stands for the number 503).
GenOk == [k |-> "ok", errorStatus |-> "", responseStatus |-> ""]
GenError(errorStatus, responseStatus) ==
  [k |-> "error", errorStatus |-> errorStatus, responseStatus |-> responseStatus]
NoGenError == [k |-> "none", errorStatus |-> "", responseStatus |-> ""]
\* e?.error?.status || e?.response?.status
StatusOfError(e) == IF e.errorStatus # "" THEN e.errorStatus ELSE e.responseStatus
\* status !== 'UNAVAILABLE' && status !== 503 is false: the call is retried.
Retryable_Always(status) == TRUE
Retryable(status) == status = "UNAVAILABLE" \/ status = "503"
\* generateWithFallback: not called, in its loops with lastErr, returned the
\* response of a model, or threw lastErr.
GenState(k, model, lastErr) == [k |-> k, model |-> model, lastErr |-> lastErr]
NotCalled == GenState("idle", 0, NoGenError)
\* One call of generateContent, as logged by 'Calling Gemini'.
GenCall(model, attempt, result) == [model |-> model, attempt |-> attempt, result |-> result]

\* ------------------------------------ src/App.tsx, the reminder check
\* The ids of the documents of the events collection.
EventDocIds == {"e1", "e2"}
\* An event with its allDay flag and its startTime (a minute of the day),
\* and a missing document.
Doc(allDay, startTime) == [k |-> "event", allDay |-> allDay, startTime |-> startTime]
NoDoc == [k |-> "none", allDay |-> FALSE, startTime |-> 0]
NoDocs == [id \in EventDocIds |-> NoDoc]
\* diff >= 0 && diff <= 15
ReminderWindow == 15
\* The events checkReminders notifies at time t: not all-day, starting in 0
\* to 15 minutes, and not in notifiedEventsRef.current.
Due(evts, t, notified) ==
  {id \in EventDocIds :
      /\ evts[id] # NoDoc
      /\ ~evts[id].allDay
      /\ evts[id].startTime - t >= 0
      /\ evts[id].startTime - t <= ReminderWindow
      /\ id \notin notified}
\* The updates of a call of updateEvent: startTime and allDay, each given or
\* left out (a call that gives neither changes other fields only).
Updates(hasStart, startTime, hasAllDay, allDay) ==
  [hasStart |-> hasStart, startTime |-> startTime, hasAllDay |-> hasAllDay,
   allDay |-> allDay]
\* db.collection('events').doc(id).update(clean)
ApplyUpdates(doc, u) ==
  Doc(IF u.hasAllDay THEN u.allDay ELSE doc.allDay,
      IF u.hasStart THEN u.startTime ELSE doc.startTime)
\* A call of updateEvent or deleteEvent that waits on its write.
Awaited(op, id) == [op |-> op, id |-> id]

\* ------------------------ src/unnamed/part_000, AiAssistantModal.handleSubmit
\* prompt.trim().length > 0, on the prompts of the model: empty, blank and
\* a text.
HasPrompt(p) == p \notin {"", " "}
\* (!hasPrompt && !hasImages) || isLoading: handleSubmit returns at once.
Ignored_EmptyOnly(p, n, loading) == ~HasPrompt(p) /\ n = 0
Ignored(p, n, loading) == (~HasPrompt(p) /\ n = 0) \/ loading
\* What handleSubmit found when it was called.
Submitted(p, n, loading) == [hasInput |-> HasPrompt(p) \/ n > 0, loading |-> loading]
\* The message the try / catch of handleSubmit adds for the way the request
\* ended: a response with text, a response without text after a tool call
\* that took effect, a response without text and without effect (no tool
\* call, or tool calls that raised errors), and a rejected request.
BotMessage(ending) ==
  CASE ending = "text" -> "bot: response.text"
    [] ending = "action" -> "bot: updated"
    [] ending = "nothing" -> "bot: not understood"
    [] OTHER -> "bot: error.message"

\* ---------------------------------------------------------- states at rest
\* No event is open in EventDetailModal.
DetailIdle == eventText = <<>> /\ stops = NoStops /\ rendered = <<>>
\* No flight status request is under way.
FlightIdle ==
  /\ hasKey = TRUE
  /\ request = NoRequest
  /\ provider = NotQueried
  /\ lookup = NoLookup
  /\ response = NoResponse
  /\ fetched = NotFetched
  /\ shown = "none"
\* No phone number is being rendered.
PhoneIdle ==
  /\ phoneBody = <<>>
  /\ phoneNorm = NotNormalized
  /\ phoneLine = "pending"
  /\ phoneInline = "pending"
\* The flight status effect has not run.
StaleIdle ==
  /\ deps = NoDeps
  /\ effectRuns = <<>>
  /\ flightStatus = NoStatus
  /\ flightStatusError = NoError
  /\ flightStatusLoading = FALSE
\* generateWithFallback has not been called.
GenIdle ==
  /\ genModel = 1
  /\ genAttempt = 0
  /\ genLog = <<>>
  /\ genOutcome = NotCalled
\* App is not mounted: no event loaded, nothing notified.
RemindIdle ==
  /\ wallClock = 0
  /\ firestore = NoDocs
  /\ events = NoDocs
  /\ notifiedEvents = {}
  /\ awaiting = {}
  /\ notices = [id \in EventDocIds |-> 0]
  /\ permission = FALSE
\* AiAssistantModal as first rendered.
AiIdle ==
  /\ prompt = ""
  /\ images = 0
  /\ isLoading = FALSE
  /\ messages = <<>>
  /\ inFlight = 0
  /\ submits = <<>>
RestIdle == StaleIdle /\ GenIdle /\ RemindIdle /\ AiIdle
OtherIdle == DetailIdle /\ FlightIdle /\ PhoneIdle /\ RestIdle
\* The date and time paths are at rest.
TimeIdle ==
  /\ now = NowBase
  /\ clientZone = TaipeiOffset
  /\ serverZone = TaipeiOffset
  /\ call = NoCall
  /\ parsed = NotParsed
  /\ clientNorm = NotRun
  /\ serverNorm = NotRun
  /\ reNorm = NotRun
  /\ clientWrite = Pending
  /\ serverWrite = Pending

\* Bodies of the lines an event description is built of.
MaxLines == 3
StopLines ==
  {Line("pickup", b) : b \in {<<Plain("addr1")>>, <<Linked("addr1")>>,
                              <<Plain("addr1"), Plain("addr1")>>,
                              <<Plain("addr1"), Linked("addr2")>>,
                              <<Plain("addr1"), Plain("addr2"), Plain("addr3"), Plain("addr4")>>,
                              <<Linked("addr4")>>}}
    \cup {Line("dropoff", b) : b \in {<<Plain("addr2")>>, <<Linked("addr2")>>,
                                      <<Plain(UrlText)>>}}
    \cup {Line("arrow", b) : b \in {<<Plain("addr3")>>, <<Linked("addr3")>>,
                                    <<Plain(NoteText)>>}}
    \cup {Line("keyword", b) : b \in {<<Plain("addr3"), Plain("addr4")>>,
                                      <<Plain("addr1"), Plain("addr2")>>,
                                      <<Linked("addr4")>>}}
    \cup {Line("remark", b) : b \in {<<Linked("addr3")>>,
                                     <<Plain(NoteText), Plain("addr4")>>}}
    \cup {Line("mid", b) : b \in {<<>>, <<Plain("addr3")>>}}
    \cup {Line("other", <<Plain(NoteText)>>)}
EventTexts == UNION {[1..n -> StopLines] : n \in 0..MaxLines}

\* ---------------------------------------------- EventDetailModal, applied
InitDetail ==
  /\ TimeIdle /\ FlightIdle /\ PhoneIdle /\ RestIdle
  /\ eventText \in EventTexts
  /\ stops = NoStops
  /\ rendered = <<>>

\* EventDetailModal renders an event: the lists are computed from its
\* description and the effect puts descriptionWithMidStops in the field.
OpenEvent ==
  /\ stops = NoStops
  /\ stops' = reconcile(eventText)
  /\ rendered' = descriptionWithMidStops(eventText, stops'.mid)
  /\ UNCHANGED eventText
  /\ UNCHANGED <<timeVars, flightVars, phoneVars, restVars>>

\* handleSave: onUpdate(event.id, { ..., description, ... }) stores the text
\* of the field; the modal then renders the stored event.
SaveEvent ==
  /\ stops # NoStops
  /\ eventText' = rendered
  /\ stops' = NoStops
  /\ rendered' = <<>>
  /\ UNCHANGED <<timeVars, flightVars, phoneVars, restVars>>

NextDetail == OpenEvent \/ SaveEvent
SpecDetail == InitDetail /\ [][NextDetail]_vars

\* ------------------------------------------ the flight status path, applied
MaxFlights == 2
\* 00:00 in Taiwan of the day of the event, as an instant.
FlightDay == 2 * MinutesPerDay - TaipeiOffset
\* event.startTime of the request: 00:30 and 12:00 in Taiwan.
QueryInstants == {FlightDay + 30, FlightDay + 12 * MinutesPerHour}
\* Arrival fields of the records: 23:30 of the day before in Taiwan, 00:10
\* and 00:50 (as far from 00:30 as each other) and 02:30.
Arrivals ==
  {Arrival(NoIso, NoIso, NoIso),
   Arrival(NoIso, NoIso, Iso(FlightDay + 10)),
   Arrival(BadIso, NoIso, Iso(FlightDay + 10)),
   Arrival(Iso(FlightDay - 30), NoIso, Iso(FlightDay + 10)),
   Arrival(NoIso, Iso(FlightDay + 50), Iso(FlightDay + 10))}
    \cup {Arrival(Iso(FlightDay + m), NoIso, NoIso) : m \in {-30, 10, 50, 150}}
    \cup {ArrivalFields(NoIso, Iso(FlightDay + 50), Iso(FlightDay + 10), NoIso, NoIso, NoIso),
          ArrivalFields(NoIso, NoIso, NoIso, Iso(FlightDay + 50), Iso(FlightDay + 10), NoIso)}
\* Departure fields: none, and 100 minutes before 00:00 in Taiwan.
NoDeparture == Departure(NoIso, NoIso, NoIso)
Departures ==
  {NoDeparture, Departure(Iso(FlightDay - 100), NoIso, NoIso),
   Departure(NoIso, NoIso, Iso(FlightDay - 100))}
Destinations ==
  {NoAirport, Airport("RCTP", "TPE", "RCTP", "TPE"), Airport("RJAA", "NRT", "RJAA", ""),
   Airport("", "tsa", "", "")}
\* The records: every arrival at Taoyuan, two arrivals at each other
\* destination, and one arrival at Taoyuan with every departure and with and
\* without a duration of the provider.
FlightRecords ==
  {FlightRecord(Airport("RCTP", "TPE", "RCTP", "TPE"), a, NoDeparture, NoMinutes) :
      a \in Arrivals}
    \cup {FlightRecord(d, Arrival(Iso(FlightDay + m), NoIso, NoIso), NoDeparture, NoMinutes) :
            d \in Destinations, m \in {10, 50}}
    \cup {FlightRecord(Airport("RCTP", "TPE", "RCTP", "TPE"),
                       Arrival(Iso(FlightDay + 10), NoIso, NoIso), dep, ete) :
            dep \in Departures, ete \in {NoMinutes, Minutes(2 * MinutesPerHour)}}
ProviderReplies ==
  {ProviderFailed} \cup {ProviderOk(f) : f \in UNION {[1..n -> FlightRecords] : n \in 0..MaxFlights}}
\* What the modal sends, and what any other client can send.
Requests ==
  {Request("GET", "CI100", TRUE, q) : q \in QueryInstants}
    \cup {Request("OPTIONS", "", FALSE, 0), Request("POST", "CI100", TRUE, FlightDay + 30),
          Request("GET", "", TRUE, FlightDay + 30), Request("GET", "CI100", FALSE, 0),
          Request("POST", "", FALSE, 0), Request("GET", "", FALSE, 0)}

InitFlight ==
  /\ TimeIdle /\ DetailIdle /\ PhoneIdle /\ RestIdle
  /\ hasKey \in BOOLEAN
  /\ request = NoRequest
  /\ provider = NotQueried
  /\ lookup = NoLookup
  /\ response = NoResponse
  /\ fetched = NotFetched
  /\ shown = "none"

\* The effect of EventDetailModal starts fetchFlightAwareStatus, or another
\* client sends a request to the endpoint.
SendRequest ==
  /\ request = NoRequest
  /\ request' \in Requests
  /\ shown' = "loading"
  /\ UNCHANGED <<hasKey, provider, lookup, response, fetched>>
  /\ UNCHANGED <<timeVars, detailVars, phoneVars, restVars>>

\* The flightAwareStatus handler runs; the provider is called when the
\* checks before the lookup pass, and throws or returns a list.
HandleRequest ==
  /\ request # NoRequest
  /\ response = NoResponse
  /\ \E reply \in ProviderReplies :
        /\ provider' = IF NeedsLookup(request, hasKey) THEN reply ELSE NotQueried
        /\ lookup' = IF NeedsLookup(request, hasKey) THEN LookupOf(request, reply)
                     ELSE NoLookup
        /\ response' = flightAwareStatus(request, hasKey, reply)
  /\ UNCHANGED <<hasKey, request, fetched, shown>>
  /\ UNCHANGED <<timeVars, detailVars, phoneVars, restVars>>

\* The response reaches fetchFlightAwareStatus and its promise settles.
Deliver ==
  /\ request.method = "GET"
  /\ response # NoResponse
  /\ fetched = NotFetched
  /\ fetched' = fetchFlightAwareStatus(response)
  /\ shown' = Shown(fetched')
  /\ UNCHANGED <<hasKey, request, provider, lookup, response>>
  /\ UNCHANGED <<timeVars, detailVars, phoneVars, restVars>>

\* fetch itself rejects: the network is down.
NetworkFails ==
  /\ request.method = "GET"
  /\ fetched = NotFetched
  /\ fetched' = Fetched("throw", NoLookup)
  /\ shown' = Shown(fetched')
  /\ UNCHANGED <<hasKey, request, provider, lookup, response>>
  /\ UNCHANGED <<timeVars, detailVars, phoneVars, restVars>>

NextFlight == SendRequest \/ HandleRequest \/ Deliver \/ NetworkFails
SpecFlight == InitFlight /\ [][NextFlight]_vars

\* ----------------------------------------------- phone rendering, applied
MaxPhoneTokens == 4
PhoneTokens == {"+", "-", " ", "0", "8", "6", "1234"}
PhoneBodies == {Chars(t) : t \in UNION {[1..n -> PhoneTokens] : n \in 0..MaxPhoneTokens}}

InitPhone ==
  /\ TimeIdle /\ DetailIdle /\ FlightIdle /\ RestIdle
  /\ phoneBody \in PhoneBodies
  /\ phoneNorm = NotNormalized
  /\ phoneLine = "pending"
  /\ phoneInline = "pending"

\* normalizePhoneNumber(phoneBody)
NormalizePhone ==
  /\ phoneNorm = NotNormalized
  /\ phoneNorm' = normalizePhoneNumber(phoneBody)
  /\ UNCHANGED <<phoneBody, phoneLine, phoneInline>>
  /\ UNCHANGED <<timeVars, detailVars, flightVars, restVars>>

\* phoneBody is a part of the body of a labelled line (電話：...).
RenderPhoneLine ==
  /\ phoneLine = "pending"
  /\ Trim(phoneBody) # <<>>
  /\ phoneLine' = renderPhoneLine(Trim(phoneBody))
  /\ UNCHANGED <<phoneBody, phoneNorm, phoneInline>>
  /\ UNCHANGED <<timeVars, detailVars, flightVars, restVars>>

\* phoneBody is a part of free text handed to the inline branch: what
\* phoneRegex matches is among these bodies.
RenderInlinePhone ==
  /\ phoneInline = "pending"
  /\ phoneBody # <<>>
  /\ phoneInline' = renderInlinePhone(phoneBody)
  /\ UNCHANGED <<phoneBody, phoneNorm, phoneLine>>
  /\ UNCHANGED <<timeVars, detailVars, flightVars, restVars>>

NextPhone == NormalizePhone \/ RenderPhoneLine \/ RenderInlinePhone
SpecPhone == InitPhone /\ [][NextPhone]_vars

\* ------------------------------------------ the flight status effect, applied
MaxEffectRuns == 3
\* Two events, a changed start time, a changed flight number, and an event
\* without a flight number.
DepsChoices ==
  {Deps("e1", 1, "CI100", "arr"), Deps("e1", 2, "CI100", "arr"), Deps("e1", 1, "BR7", "arr"),
   Deps("e2", 1, "CI100", "arr"), Deps("e1", 1, "", "")}
InitStale ==
  /\ TimeIdle /\ DetailIdle /\ FlightIdle /\ PhoneIdle
  /\ GenIdle /\ RemindIdle /\ AiIdle
  /\ deps = NoDeps
  /\ effectRuns = <<>>
  /\ flightStatus = NoStatus
  /\ flightStatusError = NoError
  /\ flightStatusLoading = FALSE

\* The modal is mounted, or renders with changed dependencies: the cleanup
\* of the run before is called and the effect runs again.
ShowEvent ==
  /\ Len(effectRuns) < MaxEffectRuns
  /\ \E d \in DepsChoices \ {deps} :
        /\ deps' = d
        /\ effectRuns' = Append(Cleanup(effectRuns), Run(d, NeedsStatus(d)))
        /\ flightStatus' = NoStatus
        /\ flightStatusError' = NoError
        /\ flightStatusLoading' = NeedsStatus(d)
  /\ UNCHANGED <<timeVars, detailVars, flightVars, phoneVars, genVars, remindVars, aiVars>>

\* The modal is unmounted: the cleanup of the latest run is called.
CloseModal ==
  /\ deps # NoDeps
  /\ deps' = NoDeps
  /\ effectRuns' = Cleanup(effectRuns)
  /\ UNCHANGED <<flightStatus, flightStatusError, flightStatusLoading>>
  /\ UNCHANGED <<timeVars, detailVars, flightVars, phoneVars, genVars, remindVars, aiVars>>

\* The promise of a run settles: then or catch, and finally.
SettleRun ==
  /\ \E i \in 1..Len(effectRuns), outcome \in {"data", "null", "error"} :
        /\ effectRuns[i].requested /\ ~effectRuns[i].settled
        /\ effectRuns' = [effectRuns EXCEPT ![i].settled = TRUE]
        /\ IF effectRuns[i].cancelled
           THEN UNCHANGED <<flightStatus, flightStatusError, flightStatusLoading>>
           ELSE /\ flightStatus' = StatusAfter(effectRuns[i], outcome)
                /\ flightStatusError' = ErrorAfter(outcome)
                /\ flightStatusLoading' = FALSE
  /\ UNCHANGED deps
  /\ UNCHANGED <<timeVars, detailVars, flightVars, phoneVars, genVars, remindVars, aiVars>>

NextStale == ShowEvent \/ CloseModal \/ SettleRun
SpecStale == InitStale /\ [][NextStale]_vars

\* ------------------------------------------- generateWithFallback, applied
\* The errors of the provider: UNAVAILABLE, HTTP 503, another status next to
\* HTTP 503, HTTP 500, and an error without any status.
GenErrors ==
  {GenError("UNAVAILABLE", ""), GenError("", "503"), GenError("INTERNAL", "503"),
   GenError("", "500"), GenError("", "")}
InitGen ==
  /\ TimeIdle /\ DetailIdle /\ FlightIdle /\ PhoneIdle
  /\ StaleIdle /\ RemindIdle /\ AiIdle
  /\ genModel = 1
  /\ genAttempt = 0
  /\ genLog = <<>>
  /\ genOutcome = NotCalled

\* The webhook calls generateWithFallback().
StartGenerate ==
  /\ genOutcome = NotCalled
  /\ genOutcome' = GenState("running", 0, NoGenError)
  /\ UNCHANGED <<genModel, genAttempt, genLog>>
  /\ UNCHANGED <<timeVars, detailVars, flightVars, phoneVars, staleVars, remindVars, aiVars>>

\* generateContent resolves: its response is returned.
CallSucceeds ==
  /\ genOutcome.k = "running"
  /\ genLog' = Append(genLog, GenCall(genModel, genAttempt + 1, GenOk))
  /\ genOutcome' = GenState("returned", genModel, genOutcome.lastErr)
  /\ UNCHANGED <<genModel, genAttempt>>
  /\ UNCHANGED <<timeVars, detailVars, flightVars, phoneVars, staleVars, remindVars, aiVars>>

\* generateContent rejects: the catch block, then the next attempt after the
\* delay, the next model, or throw lastErr after the last model.
CallFails ==
  /\ genOutcome.k = "running"
  /\ \E e \in GenErrors :
        /\ genLog' = Append(genLog, GenCall(genModel, genAttempt + 1, e))
        /\ IF Retryable(StatusOfError(e)) /\ genAttempt + 1 < MaxAttempts
           THEN /\ genAttempt' = genAttempt + 1
                /\ genOutcome' = GenState("running", 0, e)
                /\ UNCHANGED genModel
           ELSE IF genModel < Len(models)
           THEN /\ genModel' = genModel + 1
                /\ genAttempt' = 0
                /\ genOutcome' = GenState("running", 0, e)
           ELSE /\ genOutcome' = GenState("threw", 0, e)
                /\ UNCHANGED <<genModel, genAttempt>>
  /\ UNCHANGED <<timeVars, detailVars, flightVars, phoneVars, staleVars, remindVars, aiVars>>

NextGen == StartGenerate \/ CallSucceeds \/ CallFails
SpecGen == InitGen /\ [][NextGen]_vars
\* Every call of generateContent settles and every delay of the catch block
\* ends.
SpecGenLive == SpecGen /\ WF_vars(NextGen)

\* ------------------------------------------------ the reminder check, applied
MaxClock == 2
MaxNotices == 2
\* Start times: 00:01, within 15 minutes of every time of the model until it
\* has passed, and 00:30, more than 15 minutes away.
StartTimes == {1, 30}
DocChoices == {NoDoc} \cup {Doc(a, t) : a \in BOOLEAN, t \in StartTimes}
UpdateChoices ==
  {Updates(TRUE, t, FALSE, FALSE) : t \in StartTimes}
    \cup {Updates(FALSE, 0, TRUE, a) : a \in BOOLEAN}
    \cup {Updates(FALSE, 0, FALSE, FALSE)}
InitRemind ==
  /\ TimeIdle /\ DetailIdle /\ FlightIdle /\ PhoneIdle
  /\ StaleIdle /\ GenIdle /\ AiIdle
  /\ wallClock = 0
  /\ firestore \in [EventDocIds -> DocChoices]
  /\ events = NoDocs
  /\ notifiedEvents = {}
  /\ awaiting = {}
  /\ notices = [id \in EventDocIds |-> 0]
  /\ permission \in BOOLEAN

\* checkReminders() on the events evts at time t: every due event is
\* notified and added to the ref, unless new Notification throws for it.
CheckReminders(evts, t) ==
  IF ~permission THEN UNCHANGED <<notifiedEvents, notices>>
  ELSE \E thrown \in SUBSET Due(evts, t, notifiedEvents) :
         LET displayed == Due(evts, t, notifiedEvents) \ thrown
         IN  /\ notifiedEvents' = notifiedEvents \cup displayed
             /\ notices' = [id \in EventDocIds |->
                              IF id \in displayed /\ notices[id] < MaxNotices
                              THEN notices[id] + 1 ELSE notices[id]]

\* The snapshot listener sets events; the effect runs again and calls
\* checkReminders() at once.
Snapshot ==
  /\ events # firestore
  /\ events' = firestore
  /\ CheckReminders(firestore, wallClock)
  /\ UNCHANGED <<wallClock, firestore, awaiting, permission>>
  /\ UNCHANGED <<timeVars, detailVars, flightVars, phoneVars, staleVars, genVars, aiVars>>

\* A minute passes and the interval calls checkReminders().
ReminderTick ==
  /\ wallClock < MaxClock
  /\ wallClock' = wallClock + 1
  /\ CheckReminders(events, wallClock')
  /\ UNCHANGED <<firestore, events, awaiting, permission>>
  /\ UNCHANGED <<timeVars, detailVars, flightVars, phoneVars, staleVars, genVars, aiVars>>

\* updateEvent(id, updates) of a listed event up to its await: the document
\* is written.  A
\* write that carries a startTime starts a new count of notifications.
UpdateEvent ==
  /\ \E id \in EventDocIds, u \in UpdateChoices :
        /\ events[id] # NoDoc
        /\ firestore[id] # NoDoc
        /\ firestore' = [firestore EXCEPT ![id] = ApplyUpdates(firestore[id], u)]
        /\ awaiting' = IF u.hasStart THEN awaiting \cup {Awaited("update", id)} ELSE awaiting
        /\ notices' = IF u.hasStart THEN [notices EXCEPT ![id] = 0] ELSE notices
  /\ UNCHANGED <<wallClock, events, notifiedEvents, permission>>
  /\ UNCHANGED <<timeVars, detailVars, flightVars, phoneVars, staleVars, genVars, aiVars>>

\* deleteEvent(id) of a listed event up to its await: the document is deleted.
DeleteEvent ==
  /\ \E id \in EventDocIds :
        /\ events[id] # NoDoc
        /\ firestore[id] # NoDoc
        /\ firestore' = [firestore EXCEPT ![id] = NoDoc]
        /\ awaiting' = awaiting \cup {Awaited("delete", id)}
        /\ notices' = [notices EXCEPT ![id] = 0]
  /\ UNCHANGED <<wallClock, events, notifiedEvents, permission>>
  /\ UNCHANGED <<timeVars, detailVars, flightVars, phoneVars, staleVars, genVars, aiVars>>

\* The write of a call resolves and the call goes on:
\* notifiedEventsRef.current.delete(id).
WriteSettled ==
  /\ \E a \in awaiting :
        /\ awaiting' = awaiting \ {a}
        /\ notifiedEvents' = notifiedEvents \ {a.id}
  /\ UNCHANGED <<wallClock, firestore, events, notices, permission>>
  /\ UNCHANGED <<timeVars, detailVars, flightVars, phoneVars, staleVars, genVars, aiVars>>

NextRemind == Snapshot \/ ReminderTick \/ UpdateEvent \/ DeleteEvent \/ WriteSettled
SpecRemind == InitRemind /\ [][NextRemind]_vars

\* ------------------------------------------------ AiAssistantModal, applied
MaxSubmits == 3
MaxImages == 1
Prompts == {"", " ", "text"}
Endings == {"text", "action", "nothing", "rejected"}
InitAi ==
  /\ TimeIdle /\ DetailIdle /\ FlightIdle /\ PhoneIdle
  /\ StaleIdle /\ GenIdle /\ RemindIdle
  /\ prompt = ""
  /\ images = 0
  /\ isLoading = FALSE
  /\ messages = <<>>
  /\ inFlight = 0
  /\ submits = <<>>

\* The input changes, or a result of the speech recognition arrives.
SetPrompt ==
  /\ \E p \in Prompts \ {prompt} : prompt' = p
  /\ UNCHANGED <<images, isLoading, messages, inFlight, submits>>
  /\ UNCHANGED <<timeVars, detailVars, flightVars, phoneVars, staleVars, genVars, remindVars>>

\* handleImageChange; the button of the file input is disabled while
\* isLoading.
AttachImage ==
  /\ ~isLoading
  /\ images < MaxImages
  /\ images' = images + 1
  /\ UNCHANGED <<prompt, isLoading, messages, inFlight, submits>>
  /\ UNCHANGED <<timeVars, detailVars, flightVars, phoneVars, staleVars, genVars, remindVars>>

\* handleSubmit up to its await.
Submit ==
  /\ Len(submits) < MaxSubmits
  /\ submits' = Append(submits, Submitted(prompt, images, isLoading))
  /\ IF Ignored(prompt, images, isLoading)
     THEN UNCHANGED <<prompt, images, isLoading, messages, inFlight>>
     ELSE /\ messages' = Append(messages, "user")
          /\ prompt' = ""
          /\ images' = 0
          /\ isLoading' = TRUE
          /\ inFlight' = inFlight + 1
  /\ UNCHANGED <<timeVars, detailVars, flightVars, phoneVars, staleVars, genVars, remindVars>>

\* createEventViaAi settles: the tool calls, the message, and finally.
RequestEnds ==
  /\ inFlight > 0
  /\ \E ending \in Endings : messages' = Append(messages, BotMessage(ending))
  /\ isLoading' = FALSE
  /\ inFlight' = inFlight - 1
  /\ UNCHANGED <<prompt, images, submits>>
  /\ UNCHANGED <<timeVars, detailVars, flightVars, phoneVars, staleVars, genVars, remindVars>>

NextAi == SetPrompt \/ AttachImage \/ Submit \/ RequestEnds
SpecAi == InitAi /\ [][NextAi]_vars

\* ------------------------------------------------------------- input sets
StringTimes ==
  {TimeValue("offset", d, m, 0) : d \in Days, m \in Mins}
    \cup {TimeValue("local_hm", d, m, 0) : d \in Days, m \in Mins}
    \cup {TimeValue("local_hms", d, m, 0) : d \in Days, m \in Mins}
    \cup {TimeValue("date", d, 0, 0) : d \in Days}
    \cup {TimeValue("offset_bad", 0, 0, 0), TimeValue("local_hm_bad", 0, 0, 0),
          TimeValue("garbage", 0, 0, 0)}
\* Everything a caller of the shared functions can pass.
AnyTimes == {AbsentValue} \cup StringTimes
              \cup {DateObject(ValidDate(NowBase)), DateObject(InvalidDate)}
AllDayArgs == {"true", "false", "undefined"}

\* ------------------------------------------- the shared normalizer, applied
InitNorm ==
  /\ OtherIdle
  /\ now \in Clock
  /\ clientZone \in ClientZones
  /\ serverZone \in ServerZones
  /\ \E s \in AnyTimes, e \in AnyTimes, a \in AllDayArgs :
        call = ToolCall("normalize", "", s, e, a, NoDescription)
  /\ parsed = NotParsed
  /\ clientNorm = NotRun
  /\ serverNorm = NotRun
  /\ reNorm = NotRun
  /\ clientWrite = Pending
  /\ serverWrite = Pending

\* parseModelDateTimeLocal(startTime) evaluated in the browser.
ParseClient ==
  /\ call.name = "normalize"
  /\ parsed = NotParsed
  /\ parsed' = parseModelDateTimeLocal(call.startTime, clientZone)
  /\ UNCHANGED <<now, clientZone, serverZone, call, clientNorm, serverNorm, reNorm,
                 clientWrite, serverWrite>>
  /\ UNCHANGED otherVars

\* normalizeEventTimesFromText(args) evaluated in the browser.
NormalizeClient ==
  /\ call.name = "normalize"
  /\ ~HasRun(clientNorm)
  /\ clientNorm' = normalizeEventTimesFromText(call.startTime, call.endTime, call.allDay,
                                                clientZone, now)
  /\ UNCHANGED <<now, clientZone, serverZone, call, parsed, serverNorm, reNorm,
                 clientWrite, serverWrite>>
  /\ UNCHANGED otherVars

\* The same call evaluated in the cloud function.
NormalizeServer ==
  /\ call.name = "normalize"
  /\ ~HasRun(serverNorm)
  /\ serverNorm' = normalizeEventTimesFromText(call.startTime, call.endTime, call.allDay,
                                                serverZone, now)
  /\ UNCHANGED <<now, clientZone, serverZone, call, parsed, clientNorm, reNorm,
                 clientWrite, serverWrite>>
  /\ UNCHANGED otherVars

\* normalizeEventTimesFromText({ startTime: t.start, endTime: t.end,
\* allDay: t.allDay }) on the triple t the browser obtained.
NormalizeAgain ==
  /\ call.name = "normalize"
  /\ HasRun(clientNorm) /\ ~clientNorm.err
  /\ ~HasRun(reNorm)
  /\ reNorm' = normalizeEventTimesFromText(DateObject(clientNorm.start),
                                            DateObject(clientNorm.end),
                                            IF clientNorm.allDay THEN "true" ELSE "false",
                                            clientZone, now)
  /\ UNCHANGED <<now, clientZone, serverZone, call, parsed, clientNorm, serverNorm,
                 clientWrite, serverWrite>>
  /\ UNCHANGED otherVars

\* Time passes.
Tick ==
  /\ now + MinutesPerHour \in Clock
  /\ now' = now + MinutesPerHour
  /\ UNCHANGED <<clientZone, serverZone, call, parsed, clientNorm, serverNorm, reNorm,
                 clientWrite, serverWrite>>
  /\ UNCHANGED otherVars

NextNorm == ParseClient \/ NormalizeClient \/ NormalizeServer \/ NormalizeAgain \/ Tick
SpecNorm == InitNorm /\ [][NextNorm]_vars


\* ------------------------------------------------ the two tool-call paths
\* A boolean as the allDay field of a write.
AllDayField(b) == IF b THEN "true" ELSE "false"

\* handleSubmit, createCalendarEvent branch, then addEventGuarded and
\* addEvent: the triple of the shared normalizer is written as it is; the
\* description plays no part in the times.  An error thrown while
\* normalizing is caught and nothing is added; nothing is added either when
\* no user can be signed in.
ClientCreateWrite(c, tz, nowv, auth) ==
  LET Add(norm) ==
        IF norm.err \/ ~auth THEN NothingWritten
        ELSE Write("add", "", norm.start, norm.end, AllDayField(norm.allDay), TRUE)
  IN  Const(normalizeEventTimesFromText(c.startTime, c.endTime, c.allDay, tz, nowv), Add)

\* parsedUpdates.startTime || parsedUpdates.endTime || parsedUpdates.allDay !== undefined
TouchesTime(c) == Truthy(c.startTime) \/ Truthy(c.endTime) \/ c.allDay # "undefined"
\* parsedUpdates.allDay ?? updates.allDay ?? false
AllDayOrFalse(a) == IF a = "undefined" THEN "false" ELSE a

\* handleSubmit, updateCalendarEvent branch, then updateEventGuarded and
\* updateEvent: as soon as one of startTime, endTime, allDay is in the
\* payload, all three are replaced by the normalizer's triple.
ClientUpdateWrite(c, tz, nowv, auth) ==
  LET Update(normU) ==
        IF normU.err \/ ~auth THEN NothingWritten
        ELSE Write("update", c.id, normU.start, normU.end, AllDayField(normU.allDay),
                   c.description.present)
  IN  IF c.id = "" THEN NothingWritten
      ELSE IF TouchesTime(c)
        THEN Const(normalizeEventTimesFromText(c.startTime, c.endTime,
                                               AllDayOrFalse(c.allDay), tz, nowv), Update)
      ELSE IF ~auth THEN NothingWritten
      ELSE Write("update", c.id, AbsentField, AbsentField, "undefined", c.description.present)

\* parseTransportDateTimeV2(text) || parseTransportDateTime(text)
DescriptionOverride(desc) ==
  LET v2 == parseTransportDateTimeV2(desc)
  IN  IF ~Falsy(v2) THEN v2 ELSE parseTransportDateTime(desc)

\* ServerResolve with the description left out of account, as the browser
\* path does.
ServerResolve_IgnoreDescription(c, allDayArg, tz, nowv) ==
  LET AllDay(start) == Triple(start, PlusMinutes(start, MinutesPerDay), TRUE)
      Snap(norm) == IF norm.err THEN NormThrown
                    ELSE IF c.allDay = "true" THEN Const(SnapStart(norm.start, tz), AllDay)
                    ELSE norm
  IN  Const(normalizeEventTimesFromText(c.startTime, c.endTime, allDayArg, tz, nowv), Snap)

\* handleEvent lines 458-474 and 495-514: the normalizer's triple, replaced
\* by the description's date and time when it has them, then snapped to the
\* runtime's midnight when the arguments ask for an all-day event.
ServerResolve(c, allDayArg, tz, nowv) ==
  LET \* lines 460-464
      Override(norm, dt) ==
        IF ~Falsy(dt) THEN Triple(dt, PlusMinutes(dt, MinutesPerHour), FALSE) ELSE norm
      \* lines 466-474
      AllDay(start) == Triple(start, PlusMinutes(start, MinutesPerDay), TRUE)
      Snap(norm) == IF c.allDay = "true" THEN Const(SnapStart(norm.start, tz), AllDay)
                    ELSE norm
      Body(norm) == IF norm.err THEN NormThrown
                    ELSE Const(Override(norm, DescriptionOverride(c.description)), Snap)
  IN  Const(normalizeEventTimesFromText(c.startTime, c.endTime, allDayArg, tz, nowv), Body)

\* handleEvent, createCalendarEvent branch.  An error thrown by the
\* normalizer leaves the loop through the outer catch: nothing is added.
ServerCreateWrite(c, tz, nowv) ==
  LET Add(norm) ==
        IF norm.err THEN NothingWritten
        ELSE Write("add", "", norm.start, norm.end, AllDayField(c.allDay = "true"), TRUE)
  IN  Const(ServerResolve(c, c.allDay, tz, nowv), Add)

\* handleEvent, updateCalendarEvent branch.
ServerUpdateWrite(c, tz, nowv) ==
  LET Update(norm) ==
        IF norm.err THEN NothingWritten
        ELSE Write("update", c.id, norm.start, norm.end, AllDayField(norm.allDay),
                   c.description.present)
  IN  IF c.id = "" THEN NothingWritten
      ELSE IF TouchesTime(c)
        THEN Const(ServerResolve(c, AllDayOrFalse(c.allDay), tz, nowv), Update)
      ELSE Write("update", c.id, AbsentField, AbsentField, "undefined", c.description.present)

\* Tool-call arguments arrive as JSON: strings, booleans or nothing.
StartArgs ==
  {AbsentValue, TimeValue("garbage", 0, 0, 0), TimeValue("local_hms", 0, 30, 0)}
    \cup {TimeValue("date", d, 0, 0) : d \in Days}
    \cup {TimeValue("local_hm", d, m, 0) : d \in Days, m \in Mins}
EndArgs ==
  {AbsentValue, TimeValue("garbage", 0, 0, 0)}
    \cup {TimeValue("local_hm", d, 30, 0) : d \in Days}
\* Times a description names: 00:30 and 25:30 (an hour [0-2]?\d admits).
DescMins == {30, 25 * MinutesPerHour + 30}
Descriptions ==
  {NoDescription,
   Description(TRUE, "none", 0, "none", 0),
   Description(TRUE, "full", 0, "none", 0),
   Description(TRUE, "none", 0, "full", 30),
   Description(TRUE, "short", MaxDay, "short", 30),
   Description(TRUE, "bare", MaxDay, "bare", 30),
   Description(TRUE, "full", 0, "bare", 25 * MinutesPerHour + 30)}
    \cup {Description(TRUE, "full", d, "full", m) : d \in Days, m \in DescMins}
EventIds == {"e1"}

Init ==
  /\ OtherIdle
  /\ now \in Clock
  /\ clientZone \in ClientZones
  /\ serverZone \in ServerZones
  /\ call = NoCall
  /\ parsed = NotParsed
  /\ clientNorm = NotRun
  /\ serverNorm = NotRun
  /\ reNorm = NotRun
  /\ clientWrite = Pending
  /\ serverWrite = Pending

\* The model answers with a createCalendarEvent call.
ReceiveCreate ==
  /\ call = NoCall
  /\ \E s \in StartArgs, e \in EndArgs, a \in AllDayArgs, d \in Descriptions :
        call' = ToolCall("createCalendarEvent", "", s, e, a, d)
  /\ UNCHANGED <<now, clientZone, serverZone, parsed, clientNorm, serverNorm, reNorm,
                 clientWrite, serverWrite>>
  /\ UNCHANGED otherVars

\* The model answers with an updateCalendarEvent call; the id may be missing.
ReceiveUpdate ==
  /\ call = NoCall
  /\ \E i \in EventIds \cup {""}, s \in StartArgs, e \in EndArgs, a \in AllDayArgs,
        d \in Descriptions :
        call' = ToolCall("updateCalendarEvent", i, s, e, a, d)
  /\ UNCHANGED <<now, clientZone, serverZone, parsed, clientNorm, serverNorm, reNorm,
                 clientWrite, serverWrite>>
  /\ UNCHANGED otherVars

\* auth: whether a Firebase user is signed in or can be signed in
\* anonymously when addEventGuarded / updateEventGuarded runs.
ClientCreate ==
  /\ call.name = "createCalendarEvent"
  /\ clientWrite = Pending
  /\ \E auth \in BOOLEAN :
        clientWrite' = ClientCreateWrite(call, clientZone, now, auth)
  /\ UNCHANGED <<now, clientZone, serverZone, call, parsed, clientNorm, serverNorm, reNorm,
                 serverWrite>>
  /\ UNCHANGED otherVars

ClientUpdate ==
  /\ call.name = "updateCalendarEvent"
  /\ clientWrite = Pending
  /\ \E auth \in BOOLEAN :
        clientWrite' = ClientUpdateWrite(call, clientZone, now, auth)
  /\ UNCHANGED <<now, clientZone, serverZone, call, parsed, clientNorm, serverNorm, reNorm,
                 serverWrite>>
  /\ UNCHANGED otherVars

ServerCreate ==
  /\ call.name = "createCalendarEvent"
  /\ serverWrite = Pending
  /\ serverWrite' = ServerCreateWrite(call, serverZone, now)
  /\ UNCHANGED <<now, clientZone, serverZone, call, parsed, clientNorm, serverNorm, reNorm,
                 clientWrite>>
  /\ UNCHANGED otherVars

ServerUpdate ==
  /\ call.name = "updateCalendarEvent"
  /\ serverWrite = Pending
  /\ serverWrite' = ServerUpdateWrite(call, serverZone, now)
  /\ UNCHANGED <<now, clientZone, serverZone, call, parsed, clientNorm, serverNorm, reNorm,
                 clientWrite>>
  /\ UNCHANGED otherVars

\* Both paths are through with the call; the next one can arrive.
Finish ==
  /\ call # NoCall
  /\ clientWrite # Pending /\ serverWrite # Pending
  /\ call' = NoCall
  /\ clientWrite' = Pending
  /\ serverWrite' = Pending
  /\ UNCHANGED <<now, clientZone, serverZone, parsed, clientNorm, serverNorm, reNorm>>
  /\ UNCHANGED otherVars

Next ==
  \/ ReceiveCreate \/ ReceiveUpdate
  \/ ClientCreate \/ ClientUpdate
  \/ ServerCreate \/ ServerUpdate
  \/ Finish \/ Tick
Spec == Init /\ [][Next]_vars

\* ------------------------------------------------ claims on the normalizer
\* The instant the wall-clock reading (day, min) names at +08:00.
AtTaipei(day, min) == day * MinutesPerDay + min - TaipeiOffset
\* Strings of an accepted form: they name a date or a date and a time.
ParseableForms == {"offset", "local_hm", "local_hms", "date"}
\* Strings that fail every pattern and every parser.
UnparseableForms == {"offset_bad", "local_hm_bad", "garbage"}
Returned(n) == HasRun(n) /\ ~n.err

\* C1: whatever startTime, endTime and allDay are (absent, unparseable, end
\* not after start), the end that normalizeEventTimesFromText returns is
\* strictly later than the start it returns.
C1_EndAfterStart ==
  Returned(clientNorm) =>
    /\ IsValid(clientNorm.start) /\ IsValid(clientNorm.end)
    /\ clientNorm.end.t > clientNorm.start.t

\* C2: with allDay = true the returned start reads 00:00 at +08:00, lies on
\* the +08:00 calendar date of the start that was parsed, and the returned
\* end is exactly 24 hours later.
C2_AllDayTaipeiMidnight ==
  (Returned(serverNorm) /\ call.allDay = "true") =>
    LET timed == normalizeEventTimesFromText(call.startTime, call.endTime, "false",
                                             serverZone, now)
    IN  /\ IsValid(serverNorm.start) /\ IsValid(serverNorm.end)
        /\ MinuteOfDay(serverNorm.start.t, TaipeiOffset) = 0
        /\ IsValid(timed.start)
        /\ LocalDay(serverNorm.start.t, TaipeiOffset) = LocalDay(timed.start.t, TaipeiOffset)
        /\ serverNorm.end.t = serverNorm.start.t + MinutesPerDay

\* C3: normalizing a returned triple again completes without error and
\* returns the same triple.
C3_Idempotent ==
  HasRun(reNorm) => (~reNorm.err /\ reNorm = clientNorm)

\* C5: for a parseable startTime and endTime the returned start and end do
\* not depend on the time zone of the runtime: browser and cloud function
\* return the same instants.
C5_ZoneIndependent ==
  (/\ Returned(clientNorm) /\ Returned(serverNorm)
   /\ call.startTime.form \in ParseableForms
   /\ call.endTime.form \in ParseableForms) =>
    (clientNorm.start = serverNorm.start /\ clientNorm.end = serverNorm.end)

\* C9: parseModelDateTimeLocal never throws; it returns a valid instant or
\* null for every value it is given, a Date object included.
C9_ParseNeverThrows ==
  parsed # NotParsed => (IsValid(parsed) \/ parsed = Null)

\* C10: a startTime that no pattern and no parser accepts is replaced by the
\* current instant, and the end is then one hour later when none was given;
\* both returned Dates are valid.
C10_UnparseableStartIsNow ==
  (Returned(clientNorm) /\ call.startTime.form \in UnparseableForms
     /\ call.allDay # "true") =>
    /\ clientNorm.start = ValidDate(now)
    /\ IsValid(clientNorm.end)
    /\ (call.endTime = AbsentValue => clientNorm.end = ValidDate(now + MinutesPerHour))


\* ------------------------------------------- claims on the tool-call paths
IsCreate == call.name = "createCalendarEvent"
IsUpdate == call.name = "updateCalendarEvent"
Wrote(w) == w.op \in {"add", "update"}

\* C4: for the same createCalendarEvent arguments the browser path and the
\* webhook path hand the same startTime, endTime and allDay to storage.
C4_SameTimesStored ==
  (IsCreate /\ clientWrite.op = "add" /\ serverWrite.op = "add") =>
    /\ clientWrite.startTime = serverWrite.startTime
    /\ clientWrite.endTime = serverWrite.endTime
    /\ clientWrite.allDay = serverWrite.allDay

\* An update map names a time field only if the payload had that field.
OnlyPayloadFields(w) ==
  /\ w.startTime # AbsentField => Truthy(call.startTime)
  /\ w.endTime # AbsentField => Truthy(call.endTime)
  /\ w.allDay # "undefined" => call.allDay # "undefined"

\* C6: an updateCalendarEvent call writes startTime, endTime and allDay only
\* if that field was in the payload, in the browser and in the webhook.
C6_UpdateLeavesOtherFields ==
  /\ (IsUpdate /\ clientWrite.op = "update") => OnlyPayloadFields(clientWrite)
  /\ (IsUpdate /\ serverWrite.op = "update") => OnlyPayloadFields(serverWrite)

\* The description carries a date and a time the extractors turn into an
\* instant.
HasOverride == ~Falsy(DescriptionOverride(call.description))

\* C7: in the webhook's create path, a description that yields a date and
\* time, with allDay not requested, fixes the stored event: it starts at
\* that +08:00 reading, lasts one hour and is not all-day, whatever
\* startTime and endTime say.
C7_OverrideDecidesCreate ==
  (IsCreate /\ serverWrite # Pending /\ HasOverride /\ call.allDay # "true") =>
    /\ serverWrite.op = "add"
    /\ serverWrite.startTime = DescriptionOverride(call.description)
    /\ serverWrite.startTime
         = ValidDate(AtTaipei(call.description.dday, call.description.tmin))
    /\ serverWrite.endTime = ValidDate(serverWrite.startTime.t + MinutesPerHour)
    /\ serverWrite.allDay = "false"

\* C7 witness: the webhook stored the description's time although the
\* startTime argument named another, parseable instant.
C7_Witness ==
  /\ IsCreate /\ serverWrite.op = "add" /\ HasOverride /\ call.allDay # "true"
  /\ call.startTime.form = "local_hm"
  /\ call.endTime.form = "local_hm"
  /\ parseModelDateTimeLocal(call.startTime, serverZone) # serverWrite.startTime

\* The start the webhook resolves before any all-day snap: the description's
\* instant if there is one, the normalizer's timed start otherwise.
ResolvedStart ==
  IF HasOverride THEN DescriptionOverride(call.description)
  ELSE normalizeEventTimesFromText(call.startTime, call.endTime, "false", serverZone, now).start

\* C8: when the arguments request allDay = true, what the webhook stores is
\* all-day, with or without an override: start is 00:00 at +08:00 of the
\* resolved start's +08:00 date, end is 24 hours later, allDay is true.
C8_AllDayWinsAtTaipeiMidnight ==
  (Wrote(serverWrite) /\ call.allDay = "true") =>
    /\ IsValid(serverWrite.startTime) /\ IsValid(ResolvedStart)
    /\ MinuteOfDay(serverWrite.startTime.t, TaipeiOffset) = 0
    /\ LocalDay(serverWrite.startTime.t, TaipeiOffset) = LocalDay(ResolvedStart.t, TaipeiOffset)
    /\ serverWrite.endTime = ValidDate(serverWrite.startTime.t + MinutesPerDay)
    /\ serverWrite.allDay = "true"

\* ------------------------------------------- claims on the recovered stops
Opened == stops # NoStops
NoRepeat(list) == \A i, j \in 1..Len(list) : list[i] = list[j] => i = j
Count(list, s) == Cardinality({i \in 1..Len(list) : list[i] = s})
\* Where s first occurs among the texts pushed.
FirstAt(pushed, s) ==
  CHOOSE i \in 1..Len(pushed) : pushed[i] = s /\ \A j \in 1..(i - 1) : pushed[j] # s
\* list holds texts of pushed only, ordered as they first occur in it.
InOrderOfFirstOccurrence(list, pushed) ==
  /\ \A i \in 1..Len(list) : Has(pushed, list[i])
  /\ \A i, j \in 1..Len(list) :
        i < j => FirstAt(pushed, list[i]) < FirstAt(pushed, list[j])
\* The description writes s once plainly and once as a link label, on lines
\* of the given kinds.
PlainAndLinked(s, kinds) ==
  /\ \E i \in 1..Len(eventText) :
        eventText[i].kind \in kinds /\ Has(eventText[i].items, Plain(s))
  /\ \E i \in 1..Len(eventText) :
        eventText[i].kind \in kinds /\ Has(eventText[i].items, Linked(s))
\* How many different texts are pushed before s first is.
DistinctBefore(pushed, s) ==
  Cardinality({pushed[j] : j \in 1..(FirstAt(pushed, s) - 1)})
MidKinds == {"arrow", "keyword", "remark"}
MidPushed == MidCandidates(eventText, stops.pickup, stops.dropoff)
Blocked(s) == Has(stops.pickup, s) \/ Has(stops.dropoff, s)
ListShape(list, pushed) ==
  NoRepeat(list) /\ Len(list) <= MaxShown /\ InOrderOfFirstOccurrence(list, pushed)

PickupFound == {Pushed(eventText, "pickup")[i] : i \in 1..Len(Pushed(eventText, "pickup"))}
\* Every line of text a is a line of text b.
KeepsLines(a, b) == \A i \in 1..Len(a) : \E j \in 1..Len(b) : b[j] = a[i]

MidLinesListing(s) ==
  {j \in 1..Len(rendered) : rendered[j].kind = "mid" /\ Has(Texts(rendered[j].items), s)}
\* C13: in the text descriptionWithMidStops returns, every mid-stop is listed
\* in exactly one 中途停靠 line, also when the description has both a
\* 上車地址 line and a 下車地址 line.
\* (A description that has a 中途停靠 line already is returned as it is and
\* is left out here.)
C13_EachStopInOneMidLine ==
  Opened /\ FindIndex(eventText, "mid") = 0 =>
    \A i \in 1..Len(stops.mid) : Cardinality(MidLinesListing(stops.mid[i])) = 1

\* ------------------------------------------- claims on the flight lookup
\* The provider returned a list and queryFlightAwareStatus ran on it.
Answered == provider.k = "ok"
DestinationCodes(f) ==
  {f.destination.code, f.destination.code_iata, f.destination.code_icao,
   f.destination.code_lid}
\* The record's destination has a code of the Taiwan allow-list.
OnAllowList(f) ==
  f.destination.k = "airport"
    /\ \E c \in DestinationCodes(f) : ToUpperCase(c) \in TAIWAN_AIRPORT_CODES
\* The best-known arrival of a record, and whether it falls on the Taiwan
\* calendar date of the query.
BestArrival(f) == parseDate(arrivalIso(f))
OnQueryDate(f) ==
  /\ IsValid(BestArrival(f))
  /\ LocalDay(BestArrival(f).t, TaipeiOffset) = LocalDay(request.eventDate, TaipeiOffset)
Eligible ==
  {i \in 1..Len(provider.flights) :
      OnAllowList(provider.flights[i]) /\ OnQueryDate(provider.flights[i])}
Gap(i) == Distance(BestArrival(provider.flights[i]).t, request.eventDate)

\* C14: among the records that are Taiwan arrivals on the Taiwan date of the
\* query, queryFlightAwareStatus returns the one whose arrival instant is
\* closest to the query instant, and of two equally close ones the one that
\* is first in the provider's list.
C14_ClosestArrivalFirstOnTie ==
  Answered /\ Eligible # {} =>
    /\ lookup.k = "payload"
    /\ lookup.index \in Eligible
    /\ \A j \in Eligible :
          /\ Gap(lookup.index) <= Gap(j)
          /\ Gap(j) = Gap(lookup.index) => lookup.index <= j
\* Two records are equally close and the first of them is returned.
C14_Witness ==
  /\ Answered
  /\ lookup.k = "payload"
  /\ \E j \in Eligible : j > lookup.index /\ Gap(j) = Gap(lookup.index)

\* C15: queryFlightAwareStatus returns null and throws nothing when the
\* provider returns no record, when no record has a destination code of the
\* allow-list, and when no allow-listed record arrives on the Taiwan date of
\* the query; a payload is returned only for a Taiwan arrival on that date.
C15_NullWithoutTaiwanArrivalOnDate ==
  Answered =>
    /\ lookup.k \in {"null", "payload"}
    /\ provider.flights = <<>> => lookup = LookupNull
    /\ (\A i \in 1..Len(provider.flights) : ~OnAllowList(provider.flights[i]))
          => lookup = LookupNull
    /\ Eligible = {} => lookup = LookupNull
    /\ lookup.k = "payload" => lookup.index \in Eligible
\* A Taiwan arrival of another date alone gives null.
C15_Witness ==
  /\ Answered
  /\ lookup = LookupNull
  /\ \E i \in 1..Len(provider.flights) :
        /\ OnAllowList(provider.flights[i])
        /\ IsValid(BestArrival(provider.flights[i]))
        /\ ~OnQueryDate(provider.flights[i])

IsOk(status) == status >= 200 /\ status <= 299
\* C16: the endpoint answers 404 only when the lookup found no flight and
\* 5xx when the provider call failed; fetchFlightAwareStatus yields null
\* only for a 404 and throws for any other status outside 2xx; the modal
\* never shows 'not found' for a provider failure.
C16_NotFoundIsNotFailure ==
  /\ response.status = 404 => Answered /\ lookup = LookupNull
  /\ provider.k = "failed" => response.status >= 500 /\ response.status <= 599
  /\ fetched.k = "null" => response.status = 404
  /\ fetched # NotFetched /\ response # NoResponse
       /\ ~IsOk(response.status) /\ response.status # 404 => fetched.k = "throw"
  /\ provider.k = "failed" => shown # "notfound"
\* The provider failed and the modal shows an error; elsewhere no flight
\* was found and the modal says so.
C16_Witness ==
  /\ provider.k = "failed"
  /\ response.status = 502
  /\ fetched.k = "throw"
  /\ shown = "error"

\* ------------------------------------------- claims on the string forms
\* C17: parseModelDateTimeLocal reads a string 'YYYY-MM-DD HH:mm',
\* 'YYYY-MM-DDTHH:mm' or 'YYYY-MM-DD' at +08:00 in every runtime zone: the
\* instant is 8 hours before the same reading taken as UTC, with 00:00 for
\* the date-only form.
C17_OffsetlessStringsAtTaipei ==
  parsed # NotParsed /\ call.startTime.form \in {"local_hm", "date"} =>
    parsed = ValidDate(call.startTime.day * MinutesPerDay + call.startTime.min
                         - 8 * MinutesPerHour)
\* Such a string was parsed in a browser whose zone is not +08:00.
C17_Witness ==
  /\ call.startTime.form \in {"local_hm", "date"}
  /\ clientZone # TaipeiOffset
  /\ IsValid(parsed)

\* ------------------------------------- claims on the description override
\* The webhook handled a call whose startTime is given, so that the clock
\* plays no part in what it stored.
ServerHandled == call # NoCall /\ serverWrite # Pending /\ Truthy(call.startTime)
\* What the webhook stores for the same call without any description.
WithoutDescription ==
  IF IsCreate
  THEN ServerCreateWrite([call EXCEPT !.description = NoDescription], serverZone, now)
  ELSE ServerUpdateWrite([call EXCEPT !.description = NoDescription], serverZone, now)
SameTimes(w, v) ==
  w.op = v.op /\ w.startTime = v.startTime /\ w.endTime = v.endTime /\ w.allDay = v.allDay

BodyDigits == DigitsOnly(Trim(phoneBody))
LeadingPlus == StartsWith(Trim(phoneBody), <<"+">>)
Normalized == phoneNorm # NotNormalized

\* C19 as stated: every character that is not a digit is removed except a
\* leading '+'; a body with a leading '+' keeps it; digits that start with
\* 00 get '+' in place of the 00; digits that start with 886 get '+' in
\* front; any other body becomes its digits; a body without a digit gives
\* no number.
C19_Original ==
  Normalized =>
    phoneNorm = IF BodyDigits = <<>> THEN NoNumber
                ELSE IF LeadingPlus THEN Number(<<"+">> \o BodyDigits)
                ELSE IF StartsWith(BodyDigits, <<"0", "0">>)
                  THEN Number(<<"+">> \o SubSeq(BodyDigits, 3, Len(BodyDigits)))
                ELSE IF StartsWith(BodyDigits, <<"8", "8", "6">>)
                  THEN Number(<<"+">> \o BodyDigits)
                ELSE Number(BodyDigits)

\* C19, amended: as stated, except that digits starting with 00 get '+' in
\* place of the 00 only when more digits follow; the two digits 00 alone
\* stay 00.
C19_NormalizedForm ==
  Normalized =>
    phoneNorm = IF BodyDigits = <<>> THEN NoNumber
                ELSE IF LeadingPlus THEN Number(<<"+">> \o BodyDigits)
                ELSE IF BodyDigits = <<"0", "0">> THEN Number(BodyDigits)
                ELSE IF StartsWith(BodyDigits, <<"0", "0">>)
                  THEN Number(<<"+">> \o SubSeq(BodyDigits, 3, Len(BodyDigits)))
                ELSE IF StartsWith(BodyDigits, <<"8", "8", "6">>)
                  THEN Number(<<"+">> \o BodyDigits)
                ELSE Number(BodyDigits)
\* A body written with separators and the prefix 00 was rewritten.
C19_Witness ==
  /\ Normalized
  /\ ~LeadingPlus
  /\ Len(phoneBody) > Len(BodyDigits)
  /\ StartsWith(BodyDigits, <<"0", "0", "8">>)
  /\ phoneNorm = Number(<<"+">> \o SubSeq(BodyDigits, 3, Len(BodyDigits)))

\* C20: a body whose normalized form has fewer than 6 digits gets no tel:
\* link, neither as a part of a labelled phone line nor inline.
C20_NoLinkUnderSixDigits ==
  Len(DigitsOnly(normalizePhoneNumber(phoneBody).s)) < 6 =>
    phoneLine # "link" /\ phoneInline # "link"

\* ------------------------------------- claims on the re-rendered description
\* An address that is on a primary line and on a line mid-stops are read
\* from.
OnBothSides(s) ==
  /\ Has(stops.pickup, s) \/ Has(stops.dropoff, s)
  /\ \E i \in 1..Len(eventText) :
        eventText[i].kind \in MidKinds /\ Has(Texts(eventText[i].items), s)

\* C21: no entry of the mid-stop list is an entry of the pickup list or of
\* the drop-off list, whichever line (arrow, keyword, remark) and whichever
\* form (plain, Markdown link) the entry was read from.
C21_MidStopsAreNotPrimary ==
  Opened =>
    \A i \in 1..Len(stops.mid) :
      /\ \A j \in 1..Len(stops.pickup) : stops.pickup[j] # stops.mid[i]
      /\ \A j \in 1..Len(stops.dropoff) : stops.dropoff[j] # stops.mid[i]
\* A primary stop is written on a mid-stop line too, next to a real mid-stop.
C21_Witness ==
  /\ Opened
  /\ stops.mid # <<>>
  /\ \E s \in Addresses : OnBothSides(s)

\* How many lines of text are of the kind.
KindCount(text, kind) == Cardinality({i \in 1..Len(text) : text[i].kind = kind})
\* The description is a 上車地址 line, then a 下車地址 line, and an arrow line.
PickupDropoffArrow ==
  /\ Len(eventText) = 3
  /\ KindCount(eventText, "pickup") = 1
  /\ KindCount(eventText, "dropoff") = 1
  /\ KindCount(eventText, "arrow") = 1
  /\ FindIndex(eventText, "pickup") < FindIndex(eventText, "dropoff")
\* The text of that arrow line.
ArrowText == eventText[FindIndex(eventText, "arrow")].items[1].text
\* The mid-stop list is that text, and the new text has the line
\* 中途停靠：<text> right after its 上車地址 line and before its 下車地址 line.
ArrowBecomesMidLine ==
  /\ stops.mid = <<ArrowText>>
  /\ Len(rendered) > Len(eventText)
  /\ rendered[FindIndex(rendered, "pickup") + 1] = Line("mid", <<Plain(ArrowText)>>)
  /\ FindIndex(rendered, "pickup") + 1 < FindIndex(rendered, "dropoff")

ActualArrivals(f) == {f.arrival[1], f.arrival[3]} \ {NoIso}
EstimatedArrivals(f) == {f.arrival[2], f.arrival[4]} \ {NoIso}
ScheduledArrivals(f) == {f.arrival[5], f.arrival[6]} \ {NoIso}
\* The values C23 lets the best-known arrival be.
PreferredArrivals(f) ==
  IF ActualArrivals(f) # {} THEN ActualArrivals(f)
  ELSE IF EstimatedArrivals(f) # {} THEN EstimatedArrivals(f)
  ELSE ScheduledArrivals(f)

\* C23: the best-known arrival of a record is an actual value (actual_in or
\* actual_on) whenever it has one, else an estimated value when it has one,
\* else a scheduled value; that value gives the date key and the timestamp
\* of the record in the lookup and the estimatedArrival of the payload.
C23_ActualBeforeEstimated ==
  Answered =>
    /\ \A i \in 1..Len(provider.flights) :
          PreferredArrivals(provider.flights[i]) # {} =>
            /\ Match(provider.flights, i).ts
                 \in {parseDate(v) : v \in PreferredArrivals(provider.flights[i])}
            /\ Match(provider.flights, i).key
                 \in {isoStringToDateKey(v) : v \in PreferredArrivals(provider.flights[i])}
    /\ lookup.k = "payload" =>
          lookup.estimatedArrival \in PreferredArrivals(provider.flights[lookup.index])

\* The best-known departure of the record the payload is mapped from.
BestDeparture(f) == parseDate(pickFirstNonNull(f.departure))
BothResolve(f) == IsValid(BestDeparture(f)) /\ IsValid(BestArrival(f))
\* C24: durationMinutes of the payload is the best-known arrival minus the
\* best-known departure when both resolve, else the duration the provider
\* gives; it is null only when neither gives a duration.
C24_DurationFromInstantsOrProvider ==
  lookup.k = "payload" =>
    LET f == provider.flights[lookup.index]
    IN  /\ BothResolve(f) /\ BestArrival(f).t > BestDeparture(f).t
             => lookup.durationMinutes = Minutes(BestArrival(f).t - BestDeparture(f).t)
        /\ ~BothResolve(f) => lookup.durationMinutes = f.filed_ete
        /\ lookup.durationMinutes = NoMinutes =>
             /\ ~(BothResolve(f) /\ BestArrival(f).t > BestDeparture(f).t)
             /\ f.filed_ete = NoMinutes

\* ---------------------------------------------- claims on the HTTP handler
\* The checks of the handler before the lookup, on the request received.
ChecksPass ==
  request.method = "GET" /\ request.flight # "" /\ request.dateOk /\ hasKey
\* C30: the handler sends one response per request, chosen in this order:
\* OPTIONS 204, a method other than GET 405, no flight parameter 400, no
\* valid date 400, no provider key 503, a null lookup 404, a throwing lookup
\* 502, else 200 with the payload; the provider is queried only when the
\* checks before it pass; a response sent is never replaced.
C30_OneResponseByPrecedence ==
  /\ [](/\ provider # NotQueried => ChecksPass
        /\ response # NoResponse =>
             /\ request.method = "OPTIONS" => response.status = 204
             /\ request.method \notin {"OPTIONS", "GET"} => response.status = 405
             /\ request.method = "GET" /\ (request.flight = "" \/ ~request.dateOk)
                  => response.status = 400
             /\ request.method = "GET" /\ request.flight # "" /\ request.dateOk /\ ~hasKey
                  => response.status = 503
             /\ ChecksPass /\ lookup = LookupNull => response.status = 404
             /\ ChecksPass /\ lookup = LookupThrown => response.status = 502
             /\ ChecksPass /\ lookup.k = "payload"
                  => response.status = 200 /\ response.flight = lookup
             /\ ChecksPass => lookup.k \in {"null", "throw", "payload"}
             /\ response.status # 200 => response.flight = NoLookup)
  /\ [][response # NoResponse => response' = response /\ provider' = provider]_vars
\* A request that fails three checks was answered by the earliest one, and
\* the provider was not queried.
C30_Witness ==
  /\ request.method = "POST"
  /\ request.flight = ""
  /\ ~hasKey
  /\ response.status = 405
  /\ provider = NotQueried

\* ------------------------------------------ claims on the flight status effect
\* Run i settles in this step.
SettlesNow(i) == ~effectRuns[i].settled /\ effectRuns'[i].settled
\* Run i is not the run of what the modal shows now.
IsStale(i) == i # Len(effectRuns) \/ deps = NoDeps
\* C26: once the id, the start time or the flight number of the event shown
\* has changed, or the modal is unmounted, the late result or error of the
\* request started before changes none of flightStatus, flightStatusError
\* and flightStatusLoading; what they hold comes from the request started
\* for the event shown now.
C26_StaleResultIsDropped ==
  /\ [][\A i \in 1..Len(effectRuns) :
          SettlesNow(i) /\ IsStale(i) =>
            UNCHANGED <<flightStatus, flightStatusError, flightStatusLoading>>]_vars
  /\ [](deps # NoDeps =>
          /\ flightStatus.k = "data" =>
               flightStatus.of = deps /\ effectRuns[Len(effectRuns)].settled
          /\ flightStatusError # NoError => effectRuns[Len(effectRuns)].settled
          /\ flightStatusLoading =>
               effectRuns[Len(effectRuns)].requested /\ ~effectRuns[Len(effectRuns)].settled)
\* The request of an earlier event has settled while the request of the
\* event shown now is still loading.
C26_Witness ==
  /\ deps # NoDeps
  /\ flightStatusLoading
  /\ flightStatus = NoStatus
  /\ \E i \in 1..(Len(effectRuns) - 1) :
        /\ effectRuns[i].settled
        /\ effectRuns[i].cancelled
        /\ effectRuns[i].deps # deps

\* ------------------------------------------- claims on generateWithFallback
Failed(c) == c.result.k = "error"
\* The status of a failed call is UNAVAILABLE or 503.
Unavailable(c) ==
  \/ c.result.errorStatus = "UNAVAILABLE"
  \/ c.result.errorStatus = "" /\ c.result.responseStatus = "503"
\* The calls are made model after model, at most two per model, the second
\* after an UNAVAILABLE / 503 failure of the first only, and none after a
\* success.
InFixedOrder ==
  /\ genLog # <<>> => genLog[1].model = 1 /\ genLog[1].attempt = 1
  /\ \A j \in 1..(Len(genLog) - 1) :
        /\ Failed(genLog[j])
        /\ IF genLog[j].attempt = 1 /\ Unavailable(genLog[j])
           THEN genLog[j + 1].model = genLog[j].model /\ genLog[j + 1].attempt = 2
           ELSE genLog[j + 1].model = genLog[j].model + 1 /\ genLog[j + 1].attempt = 1
  /\ \A j \in 1..Len(genLog) : genLog[j].model \in 1..4 /\ genLog[j].attempt \in 1..2
\* C27: generateWithFallback tries the four models in their order, with at
\* most 2 attempts per model, the second only after an UNAVAILABLE / 503
\* failure, hence at most 8 calls; it returns the first successful response
\* and calls no model after it; it throws the last error, and only after
\* every model has failed; and it always ends.
C27_FallbackTerminates ==
  /\ [](/\ Len(genLog) <= 8
        /\ InFixedOrder
        /\ genOutcome.k = "returned" <=>
             genLog # <<>> /\ ~Failed(genLog[Len(genLog)])
        /\ genOutcome.k = "returned" => genOutcome.model = genLog[Len(genLog)].model
        /\ genOutcome.k = "threw" =>
             /\ \A j \in 1..Len(genLog) : Failed(genLog[j])
             /\ {genLog[j].model : j \in 1..Len(genLog)} = 1..4
             /\ genOutcome.lastErr = genLog[Len(genLog)].result)
  /\ <>(genOutcome.k \in {"returned", "threw"})
\* Eight calls were made and the last error was thrown.
C27_Witness ==
  /\ genOutcome.k = "threw"
  /\ Len(genLog) = 8

\* ------------------------------------------- claims on the reminder check
\* C28: at most one notification is shown per event id for as long as the
\* start time of the event is not updated and the event is not deleted,
\* whatever ticks and refreshes of the event list come; and an event whose
\* update or delete has completed with no notification since is not in the
\* notified set (it can be notified once again).
C28_OneNotificationPerStart ==
  \A id \in EventDocIds :
    /\ notices[id] <= 1
    /\ notices[id] = 0 /\ (\A a \in awaiting : a.id # id) => id \notin notifiedEvents

\* ------------------------------------------- claims on AiAssistantModal
UserMessages == Cardinality({j \in 1..Len(messages) : messages[j] = "user"})
BotMessages == Len(messages) - UserMessages
\* The submits that found an input and no request in flight.
Accepted == {j \in 1..Len(submits) : submits[j].hasInput /\ ~submits[j].loading}
\* C29: a submit made while isLoading is true starts no request and adds no
\* message, and neither does a submit with an empty prompt and no image:
\* requests and user messages are as many as the submits that found an input
\* while nothing was loading, so that one request at most is in flight; and
\* isLoading is true exactly while a request is in flight, whichever way the
\* request ended.
C29_OneRequestAtATime ==
  /\ inFlight \in {0, 1}
  /\ isLoading <=> inFlight = 1
  /\ UserMessages = Cardinality(Accepted)
  /\ BotMessages + inFlight = Cardinality(Accepted)
  /\ \A j \in 1..Len(messages) : j % 2 = 1 <=> messages[j] = "user"
\* A submit with a prompt was made while a request was in flight, and one
\* request only was started; the request has ended and isLoading is false.
C29_Witness ==
  /\ \E j \in 1..Len(submits) : submits[j].hasInput /\ submits[j].loading
  /\ \E j \in 1..Len(submits) : ~submits[j].hasInput
  /\ Cardinality(Accepted) = 1
  /\ messages = <<"user", "bot: not understood">>
  /\ ~isLoading

=============================================================================
